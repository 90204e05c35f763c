--------------------------- MODULE LocalPagesProofs ---------------------------
(***************************************************************************)
(* Proofs about the local dashboard pages.                                 *)
(*                                                                         *)
(* Of LocalPage, for any number of loads, runs and pages: the types, that  *)
(* the page shows one run, that "no runs" is only said of an empty answer, *)
(* that the decisions on screen never go back, and that a failure takes    *)
(* none of them away.                                                      *)
(*                                                                         *)
(* Of the Runs page, for any runs, days and links: the types, that windows *)
(* are compared only when they were read whole, that the readings of one   *)
(* result agree, that counts add up, and that the address, the page and    *)
(* the selection are of one view of the list.                              *)
(***************************************************************************)
EXTENDS LocalPage, MCRunsPage, FiniteSetTheorems, WellFoundedInduction, TLAPS

LoadRecords == [asked : 0..MaxRun, census : BOOLEAN, awaits : SUBSET Keys,
                late : SUBSET Keys, found : Snapshots({0})]
Requests == [by : 0..MaxLoads, seen : 0..MaxRun]
Screens == [dec : Snapshots({0}), trace : Snapshots(0..MaxRun)]
Caches == [dec : Snapshots({0}), trace : [Runs -> Snapshots(0..MaxRun)]]

\* The requests of the decisions read: its first page and the pages of its walk.
Pages == {Page(n) : n \in 1..MaxPages}
Deciding == {Decisions} \cup Pages
Pending(ld) == ld.awaits \cup ld.late

\* A load has one decisions request at a time, awaited or late, a walk has its first page in hand,
\* and a load of the newest run asks for no steps before its decisions are read.
LoadOk(ld) ==
  /\ ld.census => Pending(ld) = {}
  /\ \A k, m \in Pending(ld) \cap Deciding : k = m
  /\ ld.awaits \cap ld.late \cap Deciding = {}
  /\ ld.asked = 0 /\ Pending(ld) \cap Deciding # {} => \A r \in Runs : Trace(r) \notin Pending(ld)
  /\ Pending(ld) \cap Pages # {} => ld.found.rows # NoRows
  /\ ~ld.found.failed

\* The run whose steps belong on screen sh when the address names a.
Target(sh, a) == IF a = 0 THEN sh.dec.rows ELSE a

\* Neither the decisions on screen nor the cached ones are newer than v.
NotNewer(sh, ca, v) == sh.dec.rows <= v /\ ca.dec.rows <= v

\* The current load asks for the steps of the run on screen only, and while it
\* walks, no other decisions read can overtake it.
CurrentOk(ld, rs, sh, ca, a) ==
  /\ ld.asked = a
  /\ \A r \in Runs : Trace(r) \in Pending(ld) => r = Target(sh, a)
  /\ Pending(ld) \cap Pages # {} =>
       rs[Decisions] = NoRequest /\ NotNewer(sh, ca, ld.found.rows)

\* A decisions request was sent after everything published so far was written.
ReadsOk(rs, sh, ca) == rs[Decisions] # NoRequest => NotNewer(sh, ca, rs[Decisions].seen)

ScreenOk(sh, a) ==
  /\ sh.trace.rows \in {NoRows, sh.trace.run}
  /\ sh.trace.run \in {0, Target(sh, a)}
  /\ sh.trace # Absent /\ sh.trace.run = 0 => sh.dec # Absent

\* The cache holds the last good snapshots of its own keys.
CacheOk(sh, ca) ==
  /\ ~ca.dec.failed
  /\ Tenant /\ sh.dec.rows # NoRows => ca.dec.rows = sh.dec.rows
  /\ ~Tenant => ca.dec = Absent
  /\ \A r \in Runs : ca.trace[r].run \in {0, r} /\ ca.trace[r].rows \in {NoRows, ca.trace[r].run}
                     /\ (ca.trace[r].run = 0 => ca.trace[r] = Absent)

\* The decisions on screen only go forward, and a failure leaves their rows.
Forward ==
  /\ shown.dec.rows # NoRows /\ shown'.dec.rows # NoRows => shown'.dec.rows >= shown.dec.rows
  /\ shown'.dec.failed /\ ~shown.dec.failed => shown'.dec.rows = shown.dec.rows

IInv ==
  /\ TypeOK
  /\ \A l \in Loads : LoadOk(load[l]) /\ load[l].found.rows <= newest
  /\ CurrentOk(load[last], reads, shown, cached, asked)
  /\ ReadsOk(reads, shown, cached) /\ NotNewer(shown, cached, newest)
  /\ ScreenOk(shown, asked) /\ CacheOk(shown, cached)

-----------------------------------------------------------------------------
(* Keys, snapshots and requests                                            *)

LEMMA KeysApart ==
  /\ Decisions \in Deciding /\ Pages \subseteq Deciding /\ Deciding \subseteq Keys
  /\ Decisions \notin Pages
  /\ \A n \in 1..MaxPages : Page(n) \in Pages
  /\ \A r \in Runs : Trace(r) \in Keys /\ Trace(r) \notin Deciding
  /\ \A r, s \in Runs : Trace(r) = Trace(s) => r = s
  /\ \A k \in Keys : k \in Deciding \/ \E r \in Runs : k = Trace(r)
BY DEF Decisions, Pages, Deciding, Keys, Page, Trace

LEMMA LeastIn ==
  ASSUME NEW S, S \subseteq Loads, S # {}
  PROVE  Min(S) \in S
<1>1. S \subseteq Nat  BY DEF Loads
<1>2. PICK x \in S : \A y \in S : ~(<<y, x>> \in OpToRel(<, Nat))
  BY <1>1, WFMin, NatLessThanWellFounded
<1>3. \A y \in S : ~(y < x)  BY <1>1, <1>2 DEF OpToRel
<1>4. \A y \in S : x =< y  BY <1>1, <1>3
<1> QED BY <1>4 DEF Min

LEMMA GreaterOfTwo ==
  ASSUME NEW a \in Int, NEW b \in Int
  PROVE  Max({a, b}) \in {a, b} /\ Max({a, b}) >= a /\ Max({a, b}) >= b
<1>1. CASE a >= b
  <2>1. \A x \in {a, b} : a >= x  BY <1>1
  <2>2. Max({a, b}) \in {a, b} /\ \A x \in {a, b} : Max({a, b}) >= x  BY <2>1 DEF Max
  <2> QED BY <2>2
<1>2. CASE b >= a
  <2>1. \A x \in {a, b} : b >= x  BY <1>2
  <2>2. Max({a, b}) \in {a, b} /\ \A x \in {a, b} : Max({a, b}) >= x  BY <2>1 DEF Max
  <2> QED BY <2>2
<1> QED BY <1>1, <1>2

LEMMA SnapshotsMade ==
  /\ \A R : 0 \in R => Absent \in Snapshots(R)
  /\ \A R : \A r \in R : Failed(r) \in Snapshots(R) /\ Failed(r).failed /\ Failed(r).run = r
                         /\ Failed(r).rows = NoRows
  /\ \A R : \A r \in R, v \in 0..MaxRun :
       Good(r, v) \in Snapshots(R) /\ ~Good(r, v).failed /\ Good(r, v).run = r /\ Good(r, v).rows = v
  /\ Absent.rows = NoRows /\ Absent.run = 0 /\ ~Absent.failed
BY LocalPageBounds DEF Snapshots, Absent, Failed, Good, NoRows

\* What waits in a load after it asked for more.
LEMMA AwaitIs ==
  ASSUME NEW ls, NEW wants, wants \subseteq Loads \X Keys, NEW l \in Loads, ls[l] \in LoadRecords
  PROVE  /\ Await(ls, wants)[l] \in LoadRecords
         /\ \A k : k \in Await(ls, wants)[l].awaits <=> k \in ls[l].awaits \/ <<l, k>> \in wants
         /\ Await(ls, wants)[l].asked = ls[l].asked
         /\ Await(ls, wants)[l].census = ls[l].census
         /\ Await(ls, wants)[l].late = ls[l].late
         /\ Await(ls, wants)[l].found = ls[l].found
<1> DEFINE K == {w[2] : w \in {x \in wants : x[1] = l}}
<1>1. \A k : k \in K <=> <<l, k>> \in wants
  OBVIOUS
<1>2. K \subseteq Keys  BY <1>1
<1>3. Await(ls, wants)[l] = [ls[l] EXCEPT !.awaits = @ \cup K]
  BY DEF Await
<1> HIDE DEF K
<1> QED BY <1>1, <1>2, <1>3 DEF LoadRecords

\* A key keeps its request, or a new one is sent after the newest run was written.
LEMMA SharedReadIs ==
  ASSUME NEW rs, rs \in [Keys -> Requests], newest \in 0..MaxRun,
         NEW wants, wants \subseteq Loads \X Keys
  PROVE  /\ SharedRead(rs, wants) \in [Keys -> Requests]
         /\ \A k \in Keys : \/ SharedRead(rs, wants)[k] = rs[k]
                            \/ /\ SharedRead(rs, wants)[k].seen = newest
                               /\ \E l \in Loads : <<l, k>> \in wants
<1> DEFINE A(k) == {w[1] : w \in {x \in wants : x[2] = k}}
           v(k) == IF A(k) = {} \/ rs[k] # NoRequest THEN rs[k]
                   ELSE [by |-> Min(A(k)), seen |-> newest]
<1>1. SharedRead(rs, wants) = [k \in Keys |-> v(k)]
  BY DEF SharedRead
<1>2. \A k : A(k) \subseteq Loads /\ (A(k) # {} => \E l \in Loads : <<l, k>> \in wants)
  OBVIOUS
<1>3. ASSUME NEW k \in Keys
      PROVE  /\ v(k) \in Requests
             /\ \/ v(k) = rs[k]
                \/ v(k).seen = newest /\ \E l \in Loads : <<l, k>> \in wants
  <2>1. CASE A(k) = {} \/ rs[k] # NoRequest  BY <2>1
  <2>2. CASE A(k) # {} /\ rs[k] = NoRequest
    <3>1. Min(A(k)) \in 0..MaxLoads
      <4>1. A(k) \subseteq Loads /\ A(k) # {}  BY <1>2, <2>2
      <4> HIDE DEF A
      <4>2. Min(A(k)) \in Loads  BY <4>1, LeastIn
      <4> QED BY <4>2 DEF Loads
    <3>2. v(k) = [by |-> Min(A(k)), seen |-> newest]  BY <2>2
    <3> HIDE DEF v
    <3> QED BY <1>2, <2>2, <3>1, <3>2 DEF Requests
  <2> QED BY <2>1, <2>2
<1> HIDE DEF v
<1> QED BY <1>1, <1>3

-----------------------------------------------------------------------------
(* Publishing                                                              *)

\* A failure beside rows of the same run keeps them; all else is shown as it came.
LEMMA LastGood ==
  ASSUME NEW R, NEW prior \in Snapshots(R), NEW snapshot \in Snapshots(R)
  PROVE  LET kept == WithLastGood(prior, snapshot)
         IN  /\ kept \in Snapshots(R) /\ kept.run = snapshot.run /\ kept.failed = snapshot.failed
             /\ ~snapshot.failed => kept = snapshot
             /\ kept.rows \in {snapshot.rows, prior.rows}
             /\ snapshot.failed /\ snapshot.rows = NoRows /\ prior.run = snapshot.run
                  => kept.rows = prior.rows
<1>1. CASE snapshot.failed /\ prior.rows # NoRows /\ prior.run = snapshot.run
  <2>1. WithLastGood(prior, snapshot) = [prior EXCEPT !.failed = TRUE]  BY <1>1 DEF WithLastGood
  <2> QED BY <1>1, <2>1 DEF Snapshots
<1>2. CASE ~(snapshot.failed /\ prior.rows # NoRows /\ prior.run = snapshot.run)
  <2>1. WithLastGood(prior, snapshot) = snapshot  BY <1>2 DEF WithLastGood
  <2> QED BY <1>2, <2>1 DEF Snapshots
<1> QED BY <1>1, <1>2

LEMMA PublishedDecisions ==
  ASSUME shown \in Screens, asked \in 0..MaxRun, ScreenOk(shown, asked),
         NEW s \in Snapshots({0}), s.failed <=> s.rows = NoRows
  PROVE  LET p == PublishDecisions(shown, s)
         IN  /\ p \in Screens /\ p.dec # Absent /\ ScreenOk(p, asked)
             /\ s.failed => p.dec.rows = shown.dec.rows /\ p.dec.failed
             /\ ~s.failed => p.dec = s
             /\ ScreenOk(PublishTrace(p, Good(0, 0)), asked)
             /\ PublishTrace(p, Good(0, 0)) \in Screens
             /\ PublishTrace(p, Good(0, 0)).dec = p.dec
<1> DEFINE kept == WithLastGood(shown.dec, s)
           t == IF asked = 0 /\ ~s.failed /\ shown.trace.run # kept.rows THEN Absent ELSE shown.trace
           p == PublishDecisions(shown, s)
<1>1. p = [dec |-> kept, trace |-> t]  BY DEF PublishDecisions
<1>2. shown.dec \in Snapshots({0}) /\ shown.trace \in Snapshots(0..MaxRun)  BY DEF Screens
<1>3. /\ kept \in Snapshots({0}) /\ kept.failed = s.failed
      /\ s.failed => kept.rows = shown.dec.rows
      /\ ~s.failed => kept = s
  <2>1. shown.dec.run = 0 /\ s.run = 0  BY <1>2 DEF Snapshots
  <2> QED BY <1>2, <2>1, LastGood
<1>4. kept # Absent
  BY <1>3, SnapshotsMade
<1>5. t \in Snapshots(0..MaxRun) /\ t \in {Absent, shown.trace}
  <2>1. Absent \in Snapshots(0..MaxRun)
    <3>1. 0 \in 0..MaxRun  BY LocalPageBounds
    <3> QED BY <3>1, SnapshotsMade
  <2>2. t \in {Absent, shown.trace}  OBVIOUS
  <2> HIDE DEF t
  <2> QED BY <1>2, <2>1, <2>2
<1> HIDE DEF kept
<1>6. t.rows \in {NoRows, t.run}
  BY <1>5, SnapshotsMade DEF ScreenOk
<1>7. t.run \in {0, IF asked = 0 THEN kept.rows ELSE asked}
  <2>1. CASE asked = 0 /\ s.failed
    BY <1>3, <2>1 DEF ScreenOk, Target
  <2>2. CASE asked = 0 /\ ~s.failed
    BY <2>2, SnapshotsMade DEF ScreenOk, Target
  <2>3. CASE asked # 0
    BY <2>3 DEF ScreenOk, Target
  <2> QED BY <2>1, <2>2, <2>3
<1> HIDE DEF t, p
<1>8. p \in Screens /\ p.dec = kept /\ p.trace = t  BY <1>1, <1>3, <1>5 DEF Screens
<1>9. ScreenOk(p, asked)  BY <1>4, <1>6, <1>7, <1>8 DEF ScreenOk, Target
<1> DEFINE q == PublishTrace(p, Good(0, 0))
<1>10. q = [p EXCEPT !.trace = WithLastGood(@, Good(0, 0))]  BY DEF PublishTrace
<1>11. WithLastGood(p.trace, Good(0, 0)) = Good(0, 0) /\ Good(0, 0) \in Snapshots(0..MaxRun)
  BY LocalPageBounds DEF WithLastGood, Good, Snapshots, NoRows
<1>12. q \in Screens /\ q.dec = p.dec /\ q.trace = Good(0, 0)
  BY <1>8, <1>10, <1>11 DEF Screens
<1>13. ScreenOk(q, asked)
  BY <1>4, <1>8, <1>12 DEF ScreenOk, Good
<1> QED BY <1>3, <1>4, <1>8, <1>9, <1>12, <1>13 DEF p, q

\* What is shown keeps the cache sound when its decisions are good, or have the
\* rows that were on screen.
LEMMA ShowKeeps ==
  ASSUME NEW s \in Screens, Show(s), shown \in Screens, cached \in Caches, CacheOk(shown, cached),
         s.trace.rows \in {NoRows, s.trace.run},
         ~s.dec.failed \/ s.dec.rows = shown.dec.rows
  PROVE  /\ shown' = s /\ cached' \in Caches /\ CacheOk(s, cached')
         /\ cached'.dec.rows \in {cached.dec.rows, s.dec.rows}
<1>1. shown' = s  BY DEF Show
<1>2. CASE ~Tenant
  <2>1. cached' = cached  BY <1>2 DEF Show
  <2> QED BY <1>1, <1>2, <2>1 DEF CacheOk
<1>3. CASE Tenant
  <2> DEFINE d == IF s.dec.failed \/ s.dec = Absent THEN cached.dec ELSE s.dec
             t == [r \in Runs |-> IF s.trace.run = r /\ ~s.trace.failed THEN s.trace ELSE cached.trace[r]]
  <2>1. cached' = [dec |-> d, trace |-> t]  BY <1>3 DEF Show
  <2>2. d \in Snapshots({0}) /\ t \in [Runs -> Snapshots(0..MaxRun)]  BY DEF Screens, Caches
  <2>3. \A r \in Runs : t[r].run \in {0, r} /\ t[r].rows \in {NoRows, t[r].run} /\ (t[r].run = 0 => t[r] = Absent)
    <3> TAKE r \in Runs
    <3>1. r # 0  BY DEF Runs
    <3> QED BY <3>1 DEF CacheOk
  <2>4. ~d.failed /\ (s.dec.rows # NoRows => d.rows = s.dec.rows) /\ d.rows \in {cached.dec.rows, s.dec.rows}
    BY <1>3, SnapshotsMade DEF CacheOk, Screens, Snapshots
  <2> HIDE DEF d, t
  <2>5. cached' \in Caches /\ cached'.dec = d /\ cached'.trace = t  BY <2>1, <2>2 DEF Caches
  <2> QED BY <1>1, <1>3, <2>3, <2>4, <2>5 DEF CacheOk
<1> QED BY <1>2, <1>3

-----------------------------------------------------------------------------
(* Steps of the loads                                                      *)

\* A load that waits for less.
LEMMA FewerPending ==
  ASSUME NEW ld, LoadOk(ld), NEW less, Pending(less) \subseteq Pending(ld),
         less.found = ld.found, less.asked = ld.asked, less.census => ld.census,
         less.awaits \cap less.late \cap Deciding = {}
  PROVE  LoadOk(less)
<1>1. less.census => Pending(less) = {}  BY DEF LoadOk
<1>2. \A k, m \in Pending(less) \cap Deciding : k = m  BY DEF LoadOk
<1>3. Pending(less) \cap Deciding # {} => Pending(ld) \cap Deciding # {}  OBVIOUS
<1>4. Pending(less) \cap Pages # {} => Pending(ld) \cap Pages # {}  OBVIOUS
<1>5. ASSUME less.asked = 0, Pending(less) \cap Deciding # {}, NEW r \in Runs
      PROVE  Trace(r) \notin Pending(less)
  BY <1>3, <1>5 DEF LoadOk
<1> QED BY <1>1, <1>2, <1>4, <1>5 DEF LoadOk

\* A decisions read that ends, and one that goes on with a page of its walk.
LEMMA DecidingEnds ==
  ASSUME NEW ld, LoadOk(ld), NEW k \in Pending(ld) \cap Deciding,
         NEW less, Pending(less) \subseteq Pending(ld) \ {k},
         ~less.found.failed, less.asked = ld.asked, less.census = ld.census
  PROVE  LoadOk(less) /\ Pending(less) \cap Deciding = {} /\ ~less.census
<1>1. Pending(less) \cap Deciding = {}  BY DEF LoadOk
<1>2. Pending(less) \cap Pages = {} /\ less.awaits \cap less.late \cap Deciding = {}
  BY <1>1, KeysApart DEF Pending
<1>3. ~less.census  BY DEF LoadOk
<1> QED BY <1>1, <1>2, <1>3 DEF LoadOk

LEMMA WalkGoesOn ==
  ASSUME NEW ld, LoadOk(ld), NEW k \in Pending(ld) \cap Deciding,
         NEW on, NEW m \in Pages, Pending(on) = (Pending(ld) \ {k}) \cup {m},
         on.late \subseteq Pending(ld) \ {k},
         ~on.found.failed, on.found.rows # NoRows, on.asked = ld.asked, on.census = ld.census
  PROVE  LoadOk(on)
<1>1. Pending(on) \cap Deciding = {m}  BY KeysApart DEF LoadOk
<1>2. on.awaits \cap on.late \cap Deciding = {}  BY DEF LoadOk
<1>3. ~on.census  BY DEF LoadOk
<1>4. \A r \in Runs : Trace(r) \in Pending(on) => Trace(r) \in Pending(ld)  BY KeysApart
<1>5. \A a, b \in Pending(on) \cap Deciding : a = b  BY <1>1
<1> QED BY <1>2, <1>3, <1>4, <1>5 DEF LoadOk

\* Requests and loads that end, beside a screen with the decisions it had.
LEMMA EndingKeeps ==
  ASSUME IInv, UNCHANGED <<newest, asked, last>>, error' \in BOOLEAN,
         load' \in [Loads -> LoadRecords], reads' \in [Keys -> Requests],
         \A l \in Loads :
           /\ Pending(load'[l]) \subseteq Pending(load[l])
           /\ load'[l].found = load[l].found /\ load'[l].asked = load[l].asked
           /\ load'[l].census => load[l].census
           /\ load'[l].awaits \cap load'[l].late \cap Deciding = {},
         reads'[Decisions] \in {NoRequest, reads[Decisions]},
         shown' \in Screens, ScreenOk(shown', asked), cached' \in Caches, CacheOk(shown', cached'),
         shown'.dec.rows = shown.dec.rows, cached'.dec.rows \in {cached.dec.rows, shown.dec.rows}
  PROVE  IInv' /\ Forward
<1>1. last \in Loads /\ asked \in 0..MaxRun  BY DEF IInv, TypeOK
<1>2. TypeOK'  BY DEF IInv, TypeOK, LoadRecords, Requests, Screens, Caches
<1>3. \A l \in Loads : LoadOk(load'[l]) /\ load'[l].found.rows <= newest
  BY FewerPending DEF IInv
<1>4. \A v : NotNewer(shown, cached, v) => NotNewer(shown', cached', v)
  BY DEF NotNewer
<1>5. CurrentOk(load'[last], reads', shown', cached', asked)
  <2>1. CurrentOk(load[last], reads, shown, cached, asked)  BY DEF IInv
  <2>2. Target(shown', asked) = Target(shown, asked)  BY DEF Target
  <2> QED BY <1>1, <1>4, <2>1, <2>2 DEF CurrentOk
<1>6. ReadsOk(reads', shown', cached') /\ NotNewer(shown', cached', newest)
  BY <1>4 DEF IInv, ReadsOk
<1>7. Forward  BY DEF Forward, IInv, TypeOK, Snapshots, NoRows
<1> QED BY <1>2, <1>3, <1>5, <1>6, <1>7 DEF IInv

\* The end of a decisions read, on time, late or failed: what it publishes is not
\* older than what is on screen, and the steps asked for are those of its run.
LEMMA DecisionsOverKeeps ==
  ASSUME IInv, UNCHANGED <<newest, asked, last, error>>,
         NEW over \in SUBSET Loads, NEW snap, NEW ls, NEW rs,
         \A l \in over : /\ snap[l] \in Snapshots({0}) /\ (snap[l].failed <=> snap[l].rows = NoRows)
                         /\ snap[l].rows <= newest,
         \A l \in Loads : /\ ls[l] \in LoadRecords /\ LoadOk(ls[l]) /\ ls[l].found.rows <= newest
                          /\ ls[l].asked = load[l].asked,
         \A l \in over : /\ ~ls[l].census
                         /\ ~snap[l].failed => Pending(ls[l]) \cap Deciding = {},
         \A r \in Runs : Trace(r) \in Pending(ls[last]) => Trace(r) \in Pending(load[last]),
         rs \in [Keys -> Requests], rs[Decisions] \in {NoRequest, reads[Decisions]},
         Pending(ls[last]) \cap Pages # {} =>
           /\ last \notin over /\ rs[Decisions] = NoRequest
           /\ NotNewer(shown, cached, ls[last].found.rows),
         last \in over => Pending(load[last]) \cap Deciding # {},
         last \in over /\ ~snap[last].failed =>
           rs[Decisions] = NoRequest /\ NotNewer(shown, cached, snap[last].rows),
         DecisionsOver(over, snap, ls, rs)
  PROVE  IInv' /\ Forward
<1> DEFINE starts == {l \in over : load[l].asked = 0}
           wants == {<<l, Trace(NewestRunId(snap[l]))>> :
                       l \in {x \in starts : NewestRunId(snap[x]) # 0}}
<1>1. /\ newest \in 0..MaxRun /\ asked \in 0..MaxRun /\ last \in Loads
      /\ shown \in Screens /\ cached \in Caches
  BY DEF IInv, TypeOK, Screens, Caches
<1>2. ASSUME NEW l \in over, NewestRunId(snap[l]) # 0
      PROVE  /\ NewestRunId(snap[l]) \in Runs /\ Trace(NewestRunId(snap[l])) \in Keys
             /\ NewestRunId(snap[l]) = snap[l].rows /\ ~snap[l].failed
  <2>1. ~snap[l].failed /\ NewestRunId(snap[l]) = snap[l].rows  BY <1>2 DEF NewestRunId
  <2>2. snap[l].rows \in NoRows..MaxRun /\ snap[l].rows # NoRows /\ snap[l].rows # 0
    BY <1>2, <2>1 DEF Snapshots
  <2>3. snap[l].rows \in Runs  BY <2>2, LocalPageBounds DEF Runs, NoRows
  <2> QED BY <2>1, <2>3, KeysApart
<1>3. wants \subseteq Loads \X Keys
  BY <1>2
<1>4. \A l, k : <<l, k>> \in wants =>
        /\ l \in over /\ load[l].asked = 0 /\ ~snap[l].failed
        /\ k = Trace(snap[l].rows) /\ snap[l].rows \in Runs
  BY <1>2
<1>5. load' = Await(ls, wants) /\ reads' = SharedRead(rs, wants)
  BY DEF DecisionsOver
<1> HIDE DEF wants
<1>6. \A l \in Loads :
        /\ load'[l] \in LoadRecords
        /\ \A k : k \in load'[l].awaits <=> k \in ls[l].awaits \/ <<l, k>> \in wants
        /\ load'[l].asked = load[l].asked /\ load'[l].census = ls[l].census
        /\ load'[l].late = ls[l].late /\ load'[l].found = ls[l].found
  BY <1>3, <1>5, AwaitIs
<1>7. \A l \in Loads : \A k : k \in Pending(load'[l]) <=> k \in Pending(ls[l]) \/ <<l, k>> \in wants
  BY <1>6 DEF Pending
<1>8. \A l \in Loads : Pending(load'[l]) \cap Deciding = Pending(ls[l]) \cap Deciding
  <2> TAKE l \in Loads
  <2>1. \A k \in Deciding : <<l, k>> \notin wants  BY <1>4, KeysApart
  <2> QED BY <1>7, <2>1
<1>9. \A l \in Loads : Pending(load'[l]) \cap Pages = Pending(ls[l]) \cap Pages
  BY <1>8, KeysApart
<1>10. ASSUME NEW l \in Loads
       PROVE  LoadOk(load'[l]) /\ load'[l].found.rows <= newest
  <2>1. LoadOk(ls[l]) /\ ls[l].asked = load[l].asked /\ ls[l].found.rows <= newest  OBVIOUS
  <2>2. load'[l].census => Pending(load'[l]) = {}
    <3>1. \A k : <<l, k>> \in wants => ~ls[l].census  BY <1>4
    <3> QED BY <1>6, <1>7, <2>1, <3>1 DEF LoadOk
  <2>3. ASSUME load'[l].asked = 0, Pending(load'[l]) \cap Deciding # {}, NEW r \in Runs
        PROVE  Trace(r) \notin Pending(load'[l])
    <3>1. Pending(ls[l]) \cap Deciding # {}  BY <1>8, <2>3
    <3>2. Trace(r) \notin Pending(ls[l])  BY <1>6, <2>1, <2>3, <3>1 DEF LoadOk
    <3>3. <<l, Trace(r)>> \notin wants  BY <1>4, <3>1
    <3> QED BY <1>7, <3>2, <3>3
  <2>4. load'[l].awaits \cap load'[l].late \cap Deciding = {}
    <3>1. \A k \in Deciding : <<l, k>> \notin wants  BY <1>4, KeysApart
    <3>2. ls[l].awaits \cap ls[l].late \cap Deciding = {}  BY <2>1 DEF LoadOk
    <3> QED BY <1>6, <3>1, <3>2
  <2> QED BY <1>6, <1>8, <1>9, <2>1, <2>2, <2>3, <2>4 DEF LoadOk
<1>11. load' \in [Loads -> LoadRecords]
  <2>1. load' = [l \in Loads |-> load'[l]]  BY <1>5 DEF Await
  <2> QED BY <1>6, <2>1
<1>12. reads' \in [Keys -> Requests] /\ reads'[Decisions] = rs[Decisions]
  <2>1. Decisions \in Keys  BY KeysApart
  <2>2. \A l : <<l, Decisions>> \notin wants  BY <1>4, KeysApart
  <2> QED BY <1>1, <1>3, <1>5, <2>1, <2>2, SharedReadIs
<1>13. ASSUME shown' \in Screens, cached' \in Caches
       PROVE  TypeOK'
  BY <1>1, <1>11, <1>12, <1>13 DEF IInv, TypeOK, LoadRecords, Requests, Screens, Caches
<1>14. CurrentOk(load[last], reads, shown, cached, asked) /\ ReadsOk(reads, shown, cached)
       /\ NotNewer(shown, cached, newest) /\ ScreenOk(shown, asked) /\ CacheOk(shown, cached)
  BY DEF IInv
<1>15. CASE last \notin over
  <2>1. UNCHANGED <<shown, cached>>
    <3>1. {l \in over : Current(l)} = {}  BY <1>15 DEF Current
    <3> QED BY <3>1 DEF DecisionsOver
  <2>2. \A r \in Runs : Trace(r) \in Pending(load'[last]) => Trace(r) \in Pending(load[last])
    BY <1>1, <1>4, <1>7, <1>15
  <2>3. CurrentOk(load'[last], reads', shown, cached, asked)
    BY <1>1, <1>6, <1>9, <1>12, <1>14, <2>2 DEF CurrentOk
  <2>4. ReadsOk(reads', shown, cached)  BY <1>12, <1>14 DEF ReadsOk
  <2>5. Forward  BY <1>1, <2>1 DEF Forward, Screens, Snapshots, NoRows
  <2> QED BY <1>1, <1>10, <1>13, <1>14, <2>1, <2>3, <2>4, <2>5 DEF IInv
<1>16. CASE last \in over
  <2> DEFINE p == PublishDecisions(shown, snap[last])
             q == PublishTrace(p, Good(0, 0))
  <2>1. /\ p \in Screens /\ p.dec # Absent /\ ScreenOk(p, asked)
        /\ snap[last].failed => p.dec.rows = shown.dec.rows /\ p.dec.failed
        /\ ~snap[last].failed => p.dec = snap[last]
        /\ ScreenOk(q, asked) /\ q \in Screens /\ q.dec = p.dec
    BY <1>1, <1>14, <1>16, PublishedDecisions
  <2> HIDE DEF p, q
  <2>2. PICK s \in {p, q} : Show(s)
    <3>1. {l \in over : Current(l)} = {last}  BY <1>16 DEF Current
    <3> QED BY <3>1 DEF DecisionsOver, p, q
  <2>3. /\ s \in Screens /\ ScreenOk(s, asked)
        /\ snap[last].failed => s.dec.rows = shown.dec.rows
        /\ ~snap[last].failed => s.dec = snap[last] /\ ~s.dec.failed
    BY <2>1, <2>2
  <2>4. /\ shown' = s /\ cached' \in Caches /\ CacheOk(s, cached')
        /\ cached'.dec.rows \in {cached.dec.rows, s.dec.rows}
    BY <1>1, <1>14, <2>2, <2>3, ShowKeeps DEF ScreenOk
  <2>5. NotNewer(shown', cached', newest)
    BY <1>14, <1>16, <2>3, <2>4 DEF NotNewer
  <2>6. ReadsOk(reads', shown', cached')
    <3>1. CASE snap[last].failed
      BY <1>12, <1>14, <2>3, <2>4, <3>1 DEF ReadsOk, NotNewer
    <3>2. CASE ~snap[last].failed
      BY <1>12, <1>16, <3>2 DEF ReadsOk
    <3> QED BY <3>1, <3>2
  <2>7. CurrentOk(load'[last], reads', shown', cached', asked)
    <3>1. Pending(load'[last]) \cap Pages = {}  BY <1>1, <1>9, <1>16
    <3>2. load'[last].asked = asked  BY <1>1, <1>6, <1>14 DEF CurrentOk
    <3>3. ASSUME NEW r \in Runs, Trace(r) \in Pending(load'[last])
          PROVE  r = Target(shown', asked)
      <4>1. CASE asked = 0
        <5>1. Trace(r) \notin Pending(load[last])
          BY <1>1, <1>14, <1>16, <4>1 DEF IInv, LoadOk, CurrentOk
        <5>2. <<last, Trace(r)>> \in wants  BY <1>1, <1>7, <3>3, <5>1
        <5>3. ~snap[last].failed /\ r = snap[last].rows  BY <1>4, <5>2, KeysApart
        <5> QED BY <2>3, <2>4, <4>1, <5>3 DEF Target
      <4>2. CASE asked # 0
        <5>1. \A k : <<last, k>> \notin wants  BY <1>4, <1>14, <4>2 DEF CurrentOk
        <5>2. Trace(r) \in Pending(load[last])  BY <1>1, <1>7, <3>3, <5>1
        <5> QED BY <1>14, <4>2, <5>2 DEF CurrentOk, Target
      <4> QED BY <4>1, <4>2
    <3> QED BY <3>1, <3>2, <3>3 DEF CurrentOk
  <2>8. Forward
    <3>1. CASE snap[last].failed
      BY <1>1, <2>3, <2>4, <3>1 DEF Forward, Screens, Snapshots, NoRows
    <3>2. CASE ~snap[last].failed
      BY <1>1, <1>16, <2>3, <2>4, <3>2 DEF Forward, NotNewer, Screens, Snapshots, NoRows
    <3> QED BY <3>1, <3>2
  <2> QED BY <1>1, <1>10, <1>13, <2>3, <2>4, <2>5, <2>6, <2>7, <2>8 DEF IInv
<1> QED BY <1>15, <1>16

-----------------------------------------------------------------------------
(* The actions                                                             *)

LEMMA LoadFacts ==
  ASSUME IInv
  PROVE  /\ load \in [Loads -> LoadRecords] /\ reads \in [Keys -> Requests]
         /\ newest \in 0..MaxRun /\ last \in Loads /\ asked \in 0..MaxRun
         /\ shown \in Screens /\ cached \in Caches
         /\ \A l \in Loads : load[l] \in LoadRecords /\ LoadOk(load[l]) /\ load[l].found.rows <= newest
         /\ CurrentOk(load[last], reads, shown, cached, asked)
         /\ ReadsOk(reads, shown, cached) /\ NotNewer(shown, cached, newest)
BY DEF IInv, TypeOK, LoadRecords, Requests, Screens, Caches

LEMMA ReleasedIs ==
  ASSUME IInv, NEW k
  PROVE  /\ Released(k) \in [Loads -> LoadRecords]
         /\ \A l \in Loads : /\ Pending(Released(k)[l]) = Pending(load[l]) \ {k}
                             /\ Released(k)[l].awaits = load[l].awaits \ {k}
                             /\ Released(k)[l].late = load[l].late \ {k}
                             /\ Released(k)[l].found = load[l].found
                             /\ Released(k)[l].asked = load[l].asked
                             /\ Released(k)[l].census = load[l].census
<1>1. \A l \in Loads : load[l] \in LoadRecords  BY DEF IInv, TypeOK, LoadRecords
<1>2. ASSUME NEW l \in Loads
      PROVE  /\ Released(k)[l] \in LoadRecords
             /\ Released(k)[l].awaits = load[l].awaits \ {k}
             /\ Released(k)[l].late = load[l].late \ {k}
             /\ Released(k)[l].found = load[l].found
             /\ Released(k)[l].asked = load[l].asked
             /\ Released(k)[l].census = load[l].census
  <2>1. Released(k)[l] = [load[l] EXCEPT !.awaits = @ \ {k}, !.late = @ \ {k}]
    BY DEF Released
  <2> QED BY <1>1, <2>1 DEF LoadRecords
<1>3. Released(k) = [l \in Loads |-> Released(k)[l]]  BY DEF Released
<1> QED BY <1>2, <1>3 DEF Pending

LEMMA EndedIs ==
  ASSUME IInv, NEW k \in Keys
  PROVE  /\ Ended(k) \in [Keys -> Requests]
         /\ Ended(k)[Decisions] = IF k = Decisions THEN NoRequest ELSE reads[Decisions]
<1>1. NoRequest \in Requests /\ reads \in [Keys -> Requests]
  BY LocalPageBounds DEF NoRequest, Requests, IInv, TypeOK
<1> QED BY <1>1, KeysApart DEF Ended

LEMMA NewRunKeeps ==
  ASSUME IInv, NewRun
  PROVE  IInv' /\ Forward
<1>1. newest' \in 0..MaxRun /\ newest' > newest /\ newest \in 0..MaxRun
  BY LocalPageBounds DEF IInv, TypeOK, NewRun
<1>2. UNCHANGED <<asked, last, load, reads, shown, cached, error>>  BY DEF NewRun
<1>3. shown \in Screens /\ cached \in Caches /\ \A l \in Loads : load[l] \in LoadRecords
  BY DEF IInv, TypeOK, Screens, Caches, LoadRecords
<1>4. NotNewer(shown, cached, newest')
  BY <1>1, <1>3 DEF IInv, NotNewer, Screens, Caches, Snapshots, NoRows
<1>5. \A l \in Loads : load[l].found.rows <= newest'
  BY <1>1, <1>3 DEF IInv, LoadRecords, Snapshots, NoRows
<1>6. TypeOK'  BY <1>1, <1>2 DEF IInv, TypeOK
<1>7. Forward  BY <1>2, <1>3 DEF Forward, Screens, Snapshots, NoRows
<1> QED BY <1>2, <1>4, <1>5, <1>6, <1>7 DEF IInv

\* A load that starts becomes the current one and waits for the catalogue only.
LEMMA StartKeeps ==
  ASSUME IInv, last < MaxLoads, last' = last + 1, NEW a \in 0..MaxRun, asked' = a,
         load' = [load EXCEPT ![last + 1] = [IdleLoad EXCEPT !.asked = a, !.census = TRUE]],
         UNCHANGED <<newest, reads, cached>>, error' \in BOOLEAN,
         shown' \in Screens, ScreenOk(shown', a), CacheOk(shown', cached),
         shown'.dec.rows \in {NoRows, shown.dec.rows, cached.dec.rows}
  PROVE  IInv'
<1> DEFINE fresh == [IdleLoad EXCEPT !.asked = a, !.census = TRUE]
<1>1. fresh \in LoadRecords /\ fresh.asked = a /\ fresh.found = Absent /\ Pending(fresh) = {}
      /\ fresh.awaits = {}
  BY SnapshotsMade DEF IdleLoad, LoadRecords, Pending
<1>2. LoadOk(fresh)  BY <1>1, SnapshotsMade DEF LoadOk
<1>3. last' \in Loads /\ load \in [Loads -> LoadRecords] /\ newest \in 0..MaxRun
  BY LocalPageBounds DEF IInv, TypeOK, Loads, LoadRecords
<1> HIDE DEF fresh
<1>4. load' = [load EXCEPT ![last'] = fresh]  BY DEF fresh
<1>5. \A l \in Loads : load'[l] = IF l = last' THEN fresh ELSE load[l]  BY <1>3, <1>4
<1>6. Absent.rows <= newest  BY <1>3, SnapshotsMade DEF NoRows
<1>7. \A l \in Loads : LoadOk(load'[l]) /\ load'[l].found.rows <= newest
  BY <1>1, <1>2, <1>5, <1>6 DEF IInv
<1>13. load' \in [Loads -> LoadRecords]  BY <1>1, <1>3, <1>4
<1>8. TypeOK'
  BY <1>3, <1>13 DEF IInv, TypeOK, LoadRecords, Screens
<1>9. ASSUME NEW v \in Int, v >= -1, NotNewer(shown, cached, v)
      PROVE  NotNewer(shown', cached, v)
  BY <1>9 DEF NotNewer, NoRows
<1>10. NotNewer(shown', cached, newest)  BY <1>3, <1>9 DEF IInv
<1>11. ReadsOk(reads, shown', cached)
  <2>1. reads[Decisions].seen \in 0..MaxRun
    BY KeysApart DEF IInv, TypeOK
  <2> QED BY <1>9, <2>1 DEF IInv, ReadsOk
<1>12. CurrentOk(load'[last'], reads, shown', cached, a)
  <2>1. load'[last'] = fresh  BY <1>3, <1>5
  <2> QED BY <1>1, <2>1 DEF CurrentOk
<1> QED BY <1>7, <1>8, <1>10, <1>11, <1>12 DEF IInv

LEMMA RefreshKeeps ==
  ASSUME IInv, Refresh
  PROVE  IInv' /\ Forward
<1>1. /\ last < MaxLoads /\ last' = last + 1 /\ UNCHANGED <<newest, asked, reads, shown, cached, error>>
      /\ load' = [load EXCEPT ![last + 1] = [IdleLoad EXCEPT !.asked = asked, !.census = TRUE]]
  BY DEF Refresh
<1>2. asked \in 0..MaxRun /\ shown \in Screens /\ error \in BOOLEAN
  BY DEF IInv, TypeOK, Screens
<1>3. ScreenOk(shown, asked) /\ CacheOk(shown, cached)  BY DEF IInv
<1>4. Forward  BY <1>1, <1>2 DEF Forward, Screens, Snapshots, NoRows
<1> QED BY <1>1, <1>2, <1>3, <1>4, StartKeeps

LEMMA OpenRunKeeps ==
  ASSUME IInv, NEW r \in 0..MaxRun, OpenRun(r)
  PROVE  IInv' /\ Forward
<1>1. /\ last < MaxLoads /\ last' = last + 1 /\ asked' = r /\ error' = FALSE
      /\ UNCHANGED <<newest, reads, cached>>
      /\ load' = [load EXCEPT ![last + 1] = [IdleLoad EXCEPT !.asked = r, !.census = TRUE]]
  BY DEF OpenRun
<1>2. cached \in Caches /\ CacheOk(shown, cached)  BY DEF IInv, TypeOK, Caches
<1>3. PICK d \in {Absent, cached.dec}, t \in {Absent} \cup (IF r = 0 THEN {} ELSE {cached.trace[r]}) :
        shown' = [dec |-> d, trace |-> t]
  BY DEF OpenRun
<1>4. r # 0 => r \in Runs  BY DEF Runs
<1>5. d \in Snapshots({0}) /\ t \in Snapshots(0..MaxRun)
  <2>1. Absent \in Snapshots({0}) /\ Absent \in Snapshots(0..MaxRun)
    <3>1. 0 \in 0..MaxRun  BY LocalPageBounds
    <3> QED BY <3>1, SnapshotsMade
  <2>2. cached.dec \in Snapshots({0}) /\ \A x \in Runs : cached.trace[x] \in Snapshots(0..MaxRun)
    BY <1>2 DEF Caches
  <2> QED BY <1>4, <2>1, <2>2
<1>6. /\ t.run \in {0, r} /\ t.rows \in {NoRows, t.run} /\ (t.run = 0 => t = Absent)
      /\ r = 0 => t = Absent
  BY <1>2, <1>4, SnapshotsMade DEF CacheOk
<1>7. shown' \in Screens /\ shown'.dec = d /\ shown'.trace = t  BY <1>3, <1>5 DEF Screens
<1>8. ScreenOk(shown', r)
  BY <1>6, <1>7, SnapshotsMade DEF ScreenOk, Target
<1>9. CacheOk(shown', cached) /\ shown'.dec.rows \in {NoRows, shown.dec.rows, cached.dec.rows}
  BY <1>2, <1>7, SnapshotsMade DEF CacheOk
<1>10. Forward
  <2>1. shown \in Screens  BY LoadFacts
  <2>2. ~d.failed /\ (shown.dec.rows # NoRows => d.rows \in {NoRows, shown.dec.rows})
    BY <1>2, SnapshotsMade DEF CacheOk
  <2> QED BY <1>7, <2>1, <2>2 DEF Forward, Screens, Snapshots, NoRows
<1> QED BY <1>1, <1>7, <1>8, <1>9, <1>10, StartKeeps

\* The catalogue arrives at the current load, which joins or sends its requests.
LEMMA CensusAnsweredKeeps ==
  ASSUME IInv, NEW l \in Loads, CensusAnswered(l)
  PROVE  IInv' /\ Forward
<1> DEFINE done == [load EXCEPT ![l].census = FALSE]
           keys == {Decisions} \cup (IF load[l].asked = 0 THEN {} ELSE {Trace(load[l].asked)})
<1>1. /\ load \in [Loads -> LoadRecords] /\ newest \in 0..MaxRun /\ last \in Loads
      /\ reads \in [Keys -> Requests] /\ shown \in Screens /\ cached \in Caches
      /\ error \in BOOLEAN
  BY DEF IInv, TypeOK, LoadRecords, Requests, Screens, Caches
<1>2. UNCHANGED <<newest, asked, last, shown, cached>> /\ load[l].census  BY DEF CensusAnswered
<1>3. /\ done \in [Loads -> LoadRecords] /\ ~done[l].census /\ done[l].asked = load[l].asked
      /\ done[l].awaits = load[l].awaits /\ done[l].late = load[l].late /\ done[l].found = load[l].found
      /\ \A m \in Loads : m # l => done[m] = load[m]
  BY <1>1 DEF LoadRecords
<1>4. Pending(load[l]) = {} /\ ~load[l].found.failed /\ load[l].found.rows <= newest
  BY <1>2 DEF IInv, LoadOk
<1>5. keys \subseteq Keys /\ keys \cap Deciding = {Decisions} /\ keys \cap Pages = {}
      /\ \A r \in Runs : Trace(r) \in keys <=> load[l].asked = r /\ r # 0
  <2>1. load[l].asked \in 0..MaxRun  BY <1>1 DEF LoadRecords
  <2>2. load[l].asked # 0 => load[l].asked \in Runs  BY <2>1 DEF Runs
  <2>3. \A r \in Runs : r # 0  BY DEF Runs
  <2> QED BY <2>2, <2>3, KeysApart
<1> HIDE DEF done, keys
<1>6. CASE ~Current(l)
  <2>1. load' = done /\ UNCHANGED <<reads, error>>  BY <1>6 DEF CensusAnswered, done, keys
  <2>2. \A m \in Loads : /\ Pending(load'[m]) = Pending(load[m]) /\ load'[m].found = load[m].found
                         /\ load'[m].asked = load[m].asked /\ (load'[m].census => load[m].census)
                         /\ load'[m].awaits \cap load'[m].late \cap Deciding = {}
    BY <1>3, <2>1 DEF Pending, IInv, LoadOk
  <2>3. ScreenOk(shown, asked) /\ CacheOk(shown, cached)  BY DEF IInv
  <2> QED BY <1>1, <1>2, <1>3, <2>1, <2>2, <2>3, EndingKeeps
<1>7. CASE Current(l)
  <2>1. load' = Await(done, {l} \X keys) /\ reads' = SharedRead(reads, {l} \X keys) /\ error' = FALSE
    BY <1>7 DEF CensusAnswered, done, keys
  <2>2. {l} \X keys \subseteq Loads \X Keys /\ \A m, k : <<m, k>> \in {l} \X keys <=> m = l /\ k \in keys
    BY <1>5
  <2>3. \A m \in Loads :
          /\ load'[m] \in LoadRecords
          /\ \A k : k \in load'[m].awaits <=> k \in done[m].awaits \/ (m = l /\ k \in keys)
          /\ load'[m].asked = done[m].asked /\ load'[m].census = done[m].census
          /\ load'[m].late = done[m].late /\ load'[m].found = done[m].found
    <3> TAKE m \in Loads
    <3> DEFINE wants == {l} \X keys
    <3>1. done[m] \in LoadRecords /\ wants \subseteq Loads \X Keys /\ load'[m] = Await(done, wants)[m]
      BY <1>3, <2>1, <2>2
    <3>2. \A k : <<m, k>> \in wants <=> m = l /\ k \in keys  BY <2>2
    <3> HIDE DEF wants
    <3> DEFINE ld == Await(done, wants)[m]
    <3>3. /\ ld \in LoadRecords /\ ld.asked = done[m].asked /\ ld.census = done[m].census
          /\ ld.late = done[m].late /\ ld.found = done[m].found
          /\ \A k : k \in ld.awaits <=> k \in done[m].awaits \/ <<m, k>> \in wants
      BY <3>1, AwaitIs
    <3>4. load'[m] = ld  BY <3>1
    <3> HIDE DEF ld
    <3> QED BY <3>2, <3>3, <3>4
  <2>4. load' \in [Loads -> LoadRecords]
    <3>1. load' = [m \in Loads |-> load'[m]]  BY <2>1 DEF Await
    <3> QED BY <2>3, <3>1
  <2>5. Pending(load'[l]) = keys /\ load'[l].late = {}
    BY <1>3, <1>4, <2>3 DEF Pending
  <2>6. LoadOk(load'[l])
    BY <1>3, <1>4, <1>5, <2>3, <2>5, KeysApart DEF LoadOk
  <2>7. \A m \in Loads : m # l => LoadOk(load'[m])
    <3> TAKE m \in Loads
    <3> HAVE m # l
    <3>1. load'[m].awaits = load[m].awaits  BY <1>3, <2>3
    <3>2. Pending(load'[m]) = Pending(load[m])  BY <1>3, <2>3, <3>1 DEF Pending
    <3>3. /\ LoadOk(load[m]) /\ load'[m].found = load[m].found /\ load'[m].asked = load[m].asked
          /\ load'[m].census = load[m].census /\ load'[m].late = load[m].late
      BY <1>3, <2>3 DEF IInv
    <3>4. load'[m].awaits \cap load'[m].late \cap Deciding = {}  BY <3>1, <3>3 DEF LoadOk
    <3> QED BY <3>2, <3>3, <3>4, FewerPending
  <2>8. \A m \in Loads : load'[m].found.rows <= newest
    BY <1>3, <2>3 DEF IInv
  <2>9. reads' \in [Keys -> Requests] /\ (reads'[Decisions] = reads[Decisions] \/ reads'[Decisions].seen = newest)
    BY <1>1, <2>1, <2>2, SharedReadIs, KeysApart
  <2>10. ReadsOk(reads', shown, cached)
    BY <2>9 DEF IInv, ReadsOk
  <2>11. CurrentOk(load'[last], reads', shown, cached, asked)
    <3>1. last = l  BY <1>7 DEF Current
    <3>2. load'[last].asked = asked  BY <1>3, <2>3, <3>1 DEF IInv, CurrentOk
    <3> QED BY <1>3, <1>5, <2>3, <2>5, <3>1, <3>2 DEF CurrentOk, Target
  <2>12. TypeOK'
    BY <1>1, <1>2, <2>1, <2>4, <2>9 DEF IInv, TypeOK, LoadRecords, Requests
  <2>13. Forward  BY <1>1, <1>2 DEF Forward, Screens, Snapshots, NoRows
  <2> QED BY <1>2, <2>6, <2>7, <2>8, <2>10, <2>11, <2>12, <2>13 DEF IInv
<1> QED BY <1>6, <1>7

\* The catalogue fails: what the page has no rows of becomes a failure.
LEMMA CensusFailsKeeps ==
  ASSUME IInv, NEW l \in Loads, CensusFails(l)
  PROVE  IInv' /\ Forward
<1> DEFINE d == IF shown.dec = Absent THEN Failed(0) ELSE shown.dec
           t == IF shown.trace = Absent THEN Failed(asked) ELSE shown.trace
           s == [dec |-> d, trace |-> t]
<1>1. /\ load \in [Loads -> LoadRecords] /\ reads \in [Keys -> Requests] /\ asked \in 0..MaxRun
      /\ shown \in Screens /\ cached \in Caches /\ error \in BOOLEAN
      /\ ScreenOk(shown, asked) /\ CacheOk(shown, cached)
  BY DEF IInv, TypeOK, LoadRecords, Requests, Screens, Caches
<1>2. load' = [load EXCEPT ![l].census = FALSE] /\ UNCHANGED <<newest, asked, last, reads>>
  BY DEF CensusFails
<1>3. load' \in [Loads -> LoadRecords]  BY <1>1, <1>2 DEF LoadRecords
<1>4. \A m \in Loads : /\ Pending(load'[m]) = Pending(load[m]) /\ load'[m].found = load[m].found
                       /\ load'[m].asked = load[m].asked /\ (load'[m].census => load[m].census)
                       /\ load'[m].awaits \cap load'[m].late \cap Deciding = {}
  <2>1. \A m \in Loads : /\ load'[m].awaits = load[m].awaits /\ load'[m].late = load[m].late
                         /\ load'[m].found = load[m].found /\ load'[m].asked = load[m].asked
                         /\ (load'[m].census => load[m].census)
    BY <1>1, <1>2 DEF LoadRecords
  <2> QED BY <2>1 DEF Pending, IInv, LoadOk
<1>5. CASE UNCHANGED <<shown, cached>>
  <2>1. error' \in BOOLEAN  BY <1>1 DEF CensusFails
  <2> QED BY <1>1, <1>2, <1>3, <1>4, <1>5, <2>1, EndingKeeps
<1>6. CASE Show(s) /\ UNCHANGED error
  <2>1. d \in Snapshots({0}) /\ t \in Snapshots(0..MaxRun)
    BY <1>1, SnapshotsMade DEF Screens
  <2>2. d.rows = shown.dec.rows /\ d # Absent /\ (~d.failed \/ d.rows = shown.dec.rows)
    <3>1. /\ Failed(0).rows = NoRows /\ Failed(0).failed /\ Absent.rows = NoRows /\ ~Absent.failed
      <4>1. \A r \in {0} : Failed(r).failed /\ Failed(r).rows = NoRows  BY SnapshotsMade
      <4> QED BY <4>1, SnapshotsMade
    <3>2. CASE shown.dec = Absent  BY <3>1, <3>2
    <3>3. CASE shown.dec # Absent  BY <3>3
    <3> QED BY <3>2, <3>3
  <2>3. t.rows \in {NoRows, t.run} /\ t.run \in {0, Target(shown, asked)}
    <3>1. CASE shown.trace = Absent
      <4>1. t = Failed(asked) /\ Failed(asked).rows = NoRows /\ Failed(asked).run = asked
        BY <1>1, <3>1, SnapshotsMade
      <4>2. asked \in {0, Target(shown, asked)}  BY DEF Target
      <4> QED BY <4>1, <4>2
    <3>2. CASE shown.trace # Absent
      <4>1. t = shown.trace  BY <3>2
      <4> QED BY <1>1, <4>1 DEF ScreenOk
    <3> QED BY <3>1, <3>2
  <2> HIDE DEF d, t
  <2>4. s \in Screens /\ s.dec = d /\ s.trace = t  BY <2>1 DEF Screens
  <2>5. ScreenOk(s, asked)  BY <2>2, <2>3, <2>4 DEF ScreenOk, Target
  <2> HIDE DEF s
  <2>6. /\ shown' = s /\ cached' \in Caches /\ CacheOk(s, cached')
        /\ cached'.dec.rows \in {cached.dec.rows, s.dec.rows}
    BY <1>1, <1>6, <2>2, <2>3, <2>4, ShowKeeps
  <2>7. shown'.dec.rows = shown.dec.rows  BY <2>2, <2>4, <2>6
  <2> QED BY <1>1, <1>2, <1>3, <1>4, <1>6, <2>2, <2>4, <2>5, <2>6, <2>7, EndingKeeps
<1> QED BY <1>5, <1>6 DEF CensusFails

-----------------------------------------------------------------------------
(* The steps of one run                                                    *)

LEMMA PublishedTrace ==
  ASSUME shown \in Screens, ScreenOk(shown, asked), NEW r \in Runs, r = Target(shown, asked),
         NEW s \in {Good(r, r), Failed(r)}
  PROVE  LET p == PublishTrace(shown, s)
         IN  p \in Screens /\ ScreenOk(p, asked) /\ p.dec = shown.dec /\ p.trace.rows \in {NoRows, p.trace.run}
<1> DEFINE t == WithLastGood(shown.trace, s)
           p == PublishTrace(shown, s)
<1>1. r \in 0..MaxRun /\ r # 0  BY DEF Runs
<1>2. s \in Snapshots(0..MaxRun) /\ s.run = r /\ s.rows \in {NoRows, r}
  <2>1. Good(r, r) \in Snapshots(0..MaxRun) /\ Good(r, r).run = r /\ Good(r, r).rows = r
    BY <1>1, LocalPageBounds DEF Good, Snapshots, NoRows
  <2>2. Failed(r) \in Snapshots(0..MaxRun) /\ Failed(r).run = r /\ Failed(r).rows = NoRows
    BY <1>1, SnapshotsMade
  <2> QED BY <2>1, <2>2
<1>3. shown.trace \in Snapshots(0..MaxRun)  BY DEF Screens
<1>4. t \in Snapshots(0..MaxRun) /\ t.run = r /\ t.rows \in {NoRows, r}
  <2>1. CASE s.failed /\ shown.trace.rows # NoRows /\ shown.trace.run = s.run
    <3>1. t = [shown.trace EXCEPT !.failed = TRUE]  BY <2>1 DEF WithLastGood
    <3>2. t \in Snapshots(0..MaxRun) /\ t.run = shown.trace.run /\ t.rows = shown.trace.rows
      BY <1>3, <3>1 DEF Snapshots
    <3> QED BY <1>2, <2>1, <3>2 DEF ScreenOk
  <2>2. CASE ~(s.failed /\ shown.trace.rows # NoRows /\ shown.trace.run = s.run)
    BY <1>2, <2>2 DEF WithLastGood
  <2> QED BY <2>1, <2>2
<1>5. p = [shown EXCEPT !.trace = t]  BY DEF PublishTrace
<1> HIDE DEF t
<1>6. p \in Screens /\ p.dec = shown.dec /\ p.trace = t  BY <1>4, <1>5 DEF Screens
<1>7. ScreenOk(p, asked)  BY <1>1, <1>4, <1>6 DEF ScreenOk, Target
<1> QED BY <1>4, <1>6, <1>7

\* A trace read that ends for some loads, and is shown when the current one waits.
LEMMA TraceKeeps ==
  ASSUME IInv, NEW r \in Runs, UNCHANGED <<newest, asked, last, error>>,
         load' \in [Loads -> LoadRecords], reads' \in [Keys -> Requests],
         \A l \in Loads :
           /\ Pending(load'[l]) \subseteq Pending(load[l])
           /\ load'[l].found = load[l].found /\ load'[l].asked = load[l].asked
           /\ load'[l].census = load[l].census
           /\ load'[l].awaits \cap load'[l].late \cap Deciding = {},
         reads'[Decisions] = reads[Decisions],
         NEW s \in {Good(r, r), Failed(r)},
         \/ UNCHANGED <<shown, cached>>
         \/ Trace(r) \in Pending(load[last]) /\ Show(PublishTrace(shown, s))
  PROVE  IInv' /\ Forward
<1>1. /\ shown \in Screens /\ cached \in Caches /\ error \in BOOLEAN
      /\ ScreenOk(shown, asked) /\ CacheOk(shown, cached)
      /\ CurrentOk(load[last], reads, shown, cached, asked)
  BY DEF IInv, TypeOK, Screens, Caches
<1>2. CASE UNCHANGED <<shown, cached>>
  BY <1>1, <1>2, EndingKeeps
<1>3. CASE Trace(r) \in Pending(load[last]) /\ Show(PublishTrace(shown, s))
  <2> DEFINE p == PublishTrace(shown, s)
  <2>1. r = Target(shown, asked)  BY <1>1, <1>3 DEF CurrentOk
  <2>2. p \in Screens /\ ScreenOk(p, asked) /\ p.dec = shown.dec /\ p.trace.rows \in {NoRows, p.trace.run}
    BY <1>1, <2>1, PublishedTrace
  <2>3. Show(p)  BY <1>3
  <2> HIDE DEF p
  <2>4. /\ shown' = p /\ cached' \in Caches /\ CacheOk(p, cached')
        /\ cached'.dec.rows \in {cached.dec.rows, p.dec.rows}
    BY <1>1, <2>2, <2>3, ShowKeeps
  <2> QED BY <1>1, <2>2, <2>4, EndingKeeps
<1> QED BY <1>2, <1>3

LEMMA TraceStep ==
  ASSUME IInv, NEW r \in Runs,
         TraceAnswered(r) \/ TraceFails(r) \/ \E l \in Loads : TraceDeadline(l, r)
  PROVE  IInv' /\ Forward
<1>1. Trace(r) \in Keys /\ Trace(r) # Decisions  BY KeysApart
<1>2. /\ load \in [Loads -> LoadRecords] /\ reads \in [Keys -> Requests] /\ last \in Loads
      /\ \A l \in Loads : LoadOk(load[l])
  BY DEF IInv, TypeOK, LoadRecords, Requests
<1>3. ASSUME load' = Released(Trace(r)), reads' = Ended(Trace(r))
      PROVE  /\ load' \in [Loads -> LoadRecords] /\ reads' \in [Keys -> Requests]
             /\ reads'[Decisions] = reads[Decisions]
             /\ \A l \in Loads :
                  /\ Pending(load'[l]) \subseteq Pending(load[l])
                  /\ load'[l].found = load[l].found /\ load'[l].asked = load[l].asked
                  /\ load'[l].census = load[l].census
                  /\ load'[l].awaits \cap load'[l].late \cap Deciding = {}
  <2>1. \A l \in Loads : load'[l].awaits \cap load'[l].late \cap Deciding = {}
    BY <1>2, <1>3, ReleasedIs DEF LoadOk
  <2>2. reads' \in [Keys -> Requests] /\ reads'[Decisions] = reads[Decisions]
    BY <1>1, <1>3, EndedIs
  <2>3. ASSUME NEW l \in Loads
        PROVE  Pending(load'[l]) \subseteq Pending(load[l])
    <3>1. Pending(Released(Trace(r))[l]) = Pending(load[l]) \ {Trace(r)}  BY ReleasedIs
    <3>2. Pending(load'[l]) = Pending(Released(Trace(r))[l])  BY <1>3
    <3> QED BY <3>1, <3>2
  <2>4. load' \in [Loads -> LoadRecords]
        /\ \A l \in Loads : /\ load'[l].found = load[l].found /\ load'[l].asked = load[l].asked
                            /\ load'[l].census = load[l].census
    BY <1>3, ReleasedIs
  <2> QED BY <2>1, <2>2, <2>3, <2>4
<1>4. CASE TraceAnswered(r)
  <2>1. \/ UNCHANGED <<shown, cached>>
        \/ Trace(r) \in Pending(load[last]) /\ Show(PublishTrace(shown, Good(r, r)))
    BY <1>4 DEF TraceAnswered, Current, Waiting, LateFor, Pending
  <2>2. UNCHANGED <<newest, asked, last, error>> /\ load' = Released(Trace(r)) /\ reads' = Ended(Trace(r))
    BY <1>4 DEF TraceAnswered
  <2> QED BY <1>3, <2>1, <2>2, TraceKeeps
<1>5. CASE TraceFails(r)
  <2>1. \/ UNCHANGED <<shown, cached>>
        \/ Trace(r) \in Pending(load[last]) /\ Show(PublishTrace(shown, Failed(r)))
    BY <1>5 DEF TraceFails, Current, Waiting, Pending
  <2>2. UNCHANGED <<newest, asked, last, error>> /\ load' = Released(Trace(r)) /\ reads' = Ended(Trace(r))
    BY <1>5 DEF TraceFails
  <2> QED BY <1>3, <2>1, <2>2, TraceKeeps
<1>6. ASSUME NEW l \in Loads, TraceDeadline(l, r)
      PROVE  IInv' /\ Forward
  <2> DEFINE ld == [load[l] EXCEPT !.awaits = @ \ {Trace(r)}, !.late = @ \cup {Trace(r)}]
  <2>1. /\ Trace(r) \in load[l].awaits /\ UNCHANGED <<newest, asked, last, reads, error>>
        /\ load' = [load EXCEPT ![l].awaits = @ \ {Trace(r)}, ![l].late = @ \cup {Trace(r)}]
    BY <1>6 DEF TraceDeadline
  <2>2. load' = [load EXCEPT ![l] = ld]  BY <1>2, <2>1
  <2>3. /\ ld \in LoadRecords /\ ld.awaits = load[l].awaits \ {Trace(r)}
        /\ ld.late = load[l].late \cup {Trace(r)}
        /\ ld.found = load[l].found /\ ld.asked = load[l].asked /\ ld.census = load[l].census
    BY <1>1, <1>2 DEF LoadRecords
  <2> HIDE DEF ld
  <2>4. \A m \in Loads : load'[m] = IF m = l THEN ld ELSE load[m]  BY <1>2, <2>2
  <2>5. load' \in [Loads -> LoadRecords]  BY <1>2, <2>2, <2>3
  <2>6. Pending(ld) = Pending(load[l]) /\ ld.awaits \cap ld.late \cap Deciding = {}
    BY <1>1, <1>2, <2>1, <2>3 DEF Pending, LoadOk
  <2>7. \A m \in Loads :
          /\ Pending(load'[m]) \subseteq Pending(load[m])
          /\ load'[m].found = load[m].found /\ load'[m].asked = load[m].asked
          /\ load'[m].census = load[m].census
          /\ load'[m].awaits \cap load'[m].late \cap Deciding = {}
    BY <1>2, <2>3, <2>4, <2>6 DEF LoadOk
  <2>8. \/ UNCHANGED <<shown, cached>>
        \/ Trace(r) \in Pending(load[last]) /\ Show(PublishTrace(shown, Failed(r)))
    BY <1>6, <2>1 DEF TraceDeadline, Current, Pending
  <2> QED BY <1>2, <2>1, <2>5, <2>7, <2>8, TraceKeeps
<1> QED BY <1>4, <1>5, <1>6

-----------------------------------------------------------------------------
(* The decisions read                                                      *)

\* The loads a decisions request leaves when it ends.
LEMMA ReleasedOk ==
  ASSUME IInv, NEW k \in Deciding, NEW l \in Loads
  PROVE  LET ld == Released(k)[l]
         IN  /\ ld \in LoadRecords /\ LoadOk(ld) /\ ld.asked = load[l].asked
             /\ ld.census = load[l].census
             /\ ld.found = load[l].found /\ ld.found.rows <= newest
             /\ Pending(ld) = Pending(load[l]) \ {k}
             /\ k \in Pending(load[l]) => Pending(ld) \cap Deciding = {} /\ ~ld.census
<1> DEFINE ld == Released(k)[l]
<1>1. /\ ld \in LoadRecords /\ Pending(ld) = Pending(load[l]) \ {k}
      /\ ld.awaits = load[l].awaits \ {k} /\ ld.late = load[l].late \ {k}
      /\ ld.found = load[l].found /\ ld.asked = load[l].asked /\ ld.census = load[l].census
  <2>1. Released(k) \in [Loads -> LoadRecords]  BY ReleasedIs
  <2>2. Released(k)[l] \in LoadRecords  BY <2>1
  <2>3. /\ Pending(Released(k)[l]) = Pending(load[l]) \ {k}
        /\ Released(k)[l].awaits = load[l].awaits \ {k} /\ Released(k)[l].late = load[l].late \ {k}
        /\ Released(k)[l].found = load[l].found /\ Released(k)[l].asked = load[l].asked
        /\ Released(k)[l].census = load[l].census
    BY ReleasedIs
  <2> QED BY <2>2, <2>3
<1>2. LoadOk(load[l]) /\ load[l].found.rows <= newest  BY LoadFacts
<1> HIDE DEF ld
<1>3. ld.awaits \cap ld.late \cap Deciding = {}  BY <1>1, <1>2 DEF LoadOk
<1>4. LoadOk(ld)  BY <1>1, <1>2, <1>3, FewerPending
<1>5. k \in Pending(load[l]) => Pending(ld) \cap Deciding = {} /\ ~ld.census
  BY <1>1, <1>2 DEF LoadOk
<1> QED BY <1>1, <1>2, <1>4, <1>5 DEF ld

\* A decisions read that ends without an answer.
LEMMA DecisionsFailKeeps ==
  ASSUME IInv, DecisionsFail
  PROVE  IInv' /\ Forward
<1> DEFINE over == Waiting(Decisions)
           snap == [l \in over |-> Failed(0)]
           ls == Released(Decisions)
           rs == Ended(Decisions)
<1>1. DecisionsOver(over, snap, ls, rs) /\ UNCHANGED <<newest, asked, last, error>>
  BY DEF DecisionsFail
<1>2. over \in SUBSET Loads /\ \A l \in over : Decisions \in Pending(load[l])
  BY DEF Waiting, Pending
<1>3. \A l \in over : /\ snap[l] \in Snapshots({0}) /\ snap[l].failed /\ snap[l].rows = NoRows
                      /\ snap[l].rows <= newest
  <2>1. Failed(0) \in Snapshots({0}) /\ Failed(0).failed /\ Failed(0).rows = NoRows
    <3>1. \A r \in {0} : Failed(r) \in Snapshots({0}) /\ Failed(r).failed /\ Failed(r).rows = NoRows
      BY SnapshotsMade
    <3> QED BY <3>1
  <2>2. NoRows <= newest  BY LoadFacts, LocalPageBounds DEF NoRows
  <2> QED BY <2>1, <2>2
<1>4. Decisions \in Deciding /\ Decisions \in Keys /\ Pages \subseteq Keys  BY KeysApart
<1>5. \A l \in Loads : /\ ls[l] \in LoadRecords /\ LoadOk(ls[l]) /\ ls[l].asked = load[l].asked
                       /\ ls[l].found = load[l].found /\ ls[l].found.rows <= newest
                       /\ Pending(ls[l]) = Pending(load[l]) \ {Decisions}
                       /\ Decisions \in Pending(load[l]) => Pending(ls[l]) \cap Deciding = {} /\ ~ls[l].census
  BY <1>4, ReleasedOk
<1>6. rs \in [Keys -> Requests] /\ rs[Decisions] = NoRequest  BY <1>4, EndedIs
<1> HIDE DEF over, snap, ls, rs
<1>7. last \in Loads /\ CurrentOk(load[last], reads, shown, cached, asked)  BY LoadFacts
<1>8. Pending(ls[last]) \cap Pages # {} =>
        last \notin over /\ rs[Decisions] = NoRequest /\ NotNewer(shown, cached, ls[last].found.rows)
  <2>1. last \in over => Pending(ls[last]) \cap Pages = {}  BY <1>2, <1>5, <1>7, KeysApart
  <2>2. Pending(ls[last]) \cap Pages # {} => Pending(load[last]) \cap Pages # {}  BY <1>4, <1>5, <1>7
  <2> QED BY <1>5, <1>6, <1>7, <2>1, <2>2 DEF CurrentOk
<1>9. \A r \in Runs : Trace(r) \in Pending(ls[last]) => Trace(r) \in Pending(load[last])
  BY <1>5, <1>7, KeysApart
<1>10. last \in over => Pending(load[last]) \cap Deciding # {}  BY <1>2, <1>4
<1> QED BY <1>1, <1>2, <1>3, <1>5, <1>6, <1>8, <1>9, <1>10, DecisionsOverKeeps

\* The first page answers.
LEMMA DecisionsAnsweredKeeps ==
  ASSUME IInv, DecisionsAnswered
  PROVE  IInv' /\ Forward
<1>1. PICK v \in reads[Decisions].seen..newest, deep \in BOOLEAN :
       LET got == Good(0, v)
           walkers == {l \in Waiting(Decisions) : deep /\ Current(l)}
           over == (Waiting(Decisions) \ walkers) \cup {l \in LateFor(Decisions) : Current(l)}
           first == {<<l, Page(1)>> : l \in walkers}
           ls == [l \in Loads |-> IF l \in walkers THEN [Released(Decisions)[l] EXCEPT !.found = got]
                                  ELSE Released(Decisions)[l]]
       IN  DecisionsOver(over, [l \in over |-> got], Await(ls, first),
                         SharedRead(Ended(Decisions), first))
  BY DEF DecisionsAnswered
<1>4. v \in 0..MaxRun /\ v <= newest /\ v >= reads[Decisions].seen
  <2>1. reads[Decisions].seen \in 0..MaxRun /\ newest \in 0..MaxRun  BY KeysApart, LoadFacts DEF Requests
  <2> QED BY <2>1, LocalPageBounds
<1> DEFINE got == Good(0, v)
           walkers == {l \in Waiting(Decisions) : deep /\ Current(l)}
           over == (Waiting(Decisions) \ walkers) \cup {l \in LateFor(Decisions) : Current(l)}
           first == {<<l, Page(1)>> : l \in walkers}
           ls == [l \in Loads |-> IF l \in walkers THEN [Released(Decisions)[l] EXCEPT !.found = got]
                                  ELSE Released(Decisions)[l]]
           snap == [l \in over |-> got]
           on == Await(ls, first)
           rs == SharedRead(Ended(Decisions), first)
<1>2. DecisionsOver(over, snap, on, rs) /\ UNCHANGED <<newest, asked, last, error>>
  BY <1>1 DEF DecisionsAnswered
<1>3. /\ Decisions \in Deciding /\ Decisions \in Keys /\ Pages \subseteq Deciding /\ Deciding \subseteq Keys
      /\ Page(1) \in Pages /\ Decisions # Page(1)
  BY LocalPageBounds, KeysApart
<1>5. got \in Snapshots({0}) /\ ~got.failed /\ got.rows = v /\ got.rows # NoRows
  BY <1>4, LocalPageBounds DEF Good, Snapshots, NoRows
<1>6. NotNewer(shown, cached, v)
  <2>1. reads[Decisions] # NoRequest  BY DEF DecisionsAnswered, InFlight
  <2> QED BY <1>3, <1>4, <2>1, LoadFacts DEF ReadsOk, NotNewer, Screens, Caches, Snapshots, Requests, NoRows
<1>7. /\ over \in SUBSET Loads /\ walkers \in SUBSET Loads /\ walkers \subseteq {last}
      /\ \A l \in over \cup walkers : Decisions \in Pending(load[l])
      /\ \A l \in walkers : l \notin over
  <2>1. \A l \in Loads : load[l].awaits \cap load[l].late \cap Deciding = {}  BY LoadFacts DEF LoadOk
  <2>2. last \in Loads  BY LoadFacts
  <2> QED BY <1>3, <2>1, <2>2 DEF Waiting, LateFor, Pending, Current
<1>8. \A l \in Loads :
        LET ld == Released(Decisions)[l]
        IN  /\ ld \in LoadRecords /\ LoadOk(ld) /\ ld.asked = load[l].asked
            /\ ld.census = load[l].census
            /\ ld.found = load[l].found /\ ld.found.rows <= newest
            /\ Pending(ld) = Pending(load[l]) \ {Decisions}
            /\ Decisions \in Pending(load[l]) => Pending(ld) \cap Deciding = {} /\ ~ld.census
  BY <1>3, ReleasedOk
<1>9. first \subseteq Loads \X Keys /\ \A l, k : <<l, k>> \in first <=> l \in walkers /\ k = Page(1)
  BY <1>3, <1>7
<1>10. \A l \in Loads : /\ l \in walkers => ls[l] = [Released(Decisions)[l] EXCEPT !.found = got]
                        /\ l \notin walkers => ls[l] = Released(Decisions)[l]
  OBVIOUS
<1>11. \A l \in over : snap[l] = got  OBVIOUS
<1> HIDE DEF got, walkers, over, first, ls, snap
<1>12. ASSUME NEW l \in Loads
       PROVE  /\ on[l] \in LoadRecords /\ LoadOk(on[l]) /\ on[l].asked = load[l].asked
              /\ on[l].found.rows <= newest
              /\ l \in over => Pending(on[l]) \cap Deciding = {} /\ ~on[l].census
              /\ \A r \in Runs : Trace(r) \in Pending(on[l]) => Trace(r) \in Pending(load[l])
              /\ Pending(on[l]) \cap Pages # {} => \/ l \in walkers /\ on[l].found = got
                                                   \/ /\ Pending(load[l]) \cap Pages # {}
                                                      /\ on[l].found = load[l].found
  <2> DEFINE ld == Released(Decisions)[l]
  <2>1. /\ ld \in LoadRecords /\ LoadOk(ld) /\ ld.asked = load[l].asked
        /\ ld.census = load[l].census
        /\ ld.found = load[l].found /\ ld.found.rows <= newest
        /\ Pending(ld) = Pending(load[l]) \ {Decisions}
        /\ Decisions \in Pending(load[l]) => Pending(ld) \cap Deciding = {} /\ ~ld.census
    BY <1>8
  <2>2. LoadOk(load[l])  BY LoadFacts
  <2>3. CASE l \in walkers
    <3>1. ls[l] = [ld EXCEPT !.found = got]  BY <1>10, <2>3
    <3> HIDE DEF ld
    <3>2. /\ ls[l] \in LoadRecords /\ ls[l].found = got /\ ls[l].awaits = ld.awaits /\ ls[l].late = ld.late
          /\ ls[l].asked = ld.asked /\ ls[l].census = ld.census
      BY <1>5, <2>1, <3>1 DEF LoadRecords
    <3>3. /\ on[l] \in LoadRecords /\ \A k : k \in on[l].awaits <=> k \in ls[l].awaits \/ <<l, k>> \in first
          /\ on[l].asked = ls[l].asked /\ on[l].census = ls[l].census
          /\ on[l].late = ls[l].late /\ on[l].found = ls[l].found
      BY <1>9, <3>2, AwaitIs
    <3>4. Pending(on[l]) = (Pending(load[l]) \ {Decisions}) \cup {Page(1)}
      <4>1. on[l].awaits = ld.awaits \cup {Page(1)}
        <5>1. \A k : k \in on[l].awaits <=> k \in ld.awaits \/ k = Page(1)
          <6>1. \A k : <<l, k>> \in first <=> k = Page(1)  BY <1>9, <2>3
          <6>2. ls[l].awaits = ld.awaits  BY <3>2
          <6> QED BY <3>3, <6>1, <6>2
        <5> QED BY <5>1
      <4>2. on[l].late = ld.late  BY <3>2, <3>3
      <4> QED BY <2>1, <4>1, <4>2 DEF Pending
    <3>5. LoadOk(on[l])
      <4>1. Decisions \in Pending(load[l]) \cap Deciding  BY <1>3, <1>7, <2>3
      <4>2. on[l].census = load[l].census  BY <2>1, <3>2, <3>3
      <4>3. on[l].late \subseteq Pending(load[l]) \ {Decisions}
        <5>1. on[l].late \subseteq Pending(ld)  BY <3>2, <3>3 DEF Pending
        <5> QED BY <2>1, <5>1
      <4> QED BY <1>3, <1>5, <2>1, <2>2, <3>2, <3>3, <3>4, <4>1, <4>2, <4>3, WalkGoesOn
    <3>6. on[l].found = got /\ on[l].found.rows <= newest /\ on[l].asked = load[l].asked
      BY <1>4, <1>5, <2>1, <3>2, <3>3
    <3>7. \A r \in Runs : Trace(r) \in Pending(on[l]) => Trace(r) \in Pending(load[l])
      BY <1>3, <3>4, KeysApart
    <3> QED BY <1>7, <2>3, <3>3, <3>5, <3>6, <3>7
  <2>4. CASE l \notin walkers
    <3>1. ls[l] = ld  BY <1>10, <2>4
    <3> HIDE DEF ld
    <3>2. /\ on[l] \in LoadRecords /\ \A k : k \in on[l].awaits <=> k \in ls[l].awaits \/ <<l, k>> \in first
          /\ on[l].asked = ls[l].asked /\ on[l].census = ls[l].census
          /\ on[l].late = ls[l].late /\ on[l].found = ls[l].found
      BY <1>9, <2>1, <3>1, AwaitIs
    <3>3. on[l].awaits = ld.awaits /\ on[l].late = ld.late  BY <1>9, <2>4, <3>1, <3>2
    <3>4. Pending(on[l]) = Pending(ld)  BY <3>3 DEF Pending
    <3>5. LoadOk(on[l])
      <4>1. on[l].awaits \cap on[l].late \cap Deciding = {}  BY <2>1, <3>3 DEF LoadOk
      <4> QED BY <2>1, <3>1, <3>2, <3>4, <4>1, FewerPending
    <3> QED BY <1>3, <1>7, <2>1, <3>1, <3>2, <3>4, <3>5
  <2> QED BY <2>3, <2>4
<1>13. rs \in [Keys -> Requests] /\ rs[Decisions] = NoRequest
  <2>1. Ended(Decisions) \in [Keys -> Requests] /\ Ended(Decisions)[Decisions] = NoRequest
    BY <1>3, EndedIs
  <2>2. \A l : <<l, Decisions>> \notin first  BY <1>3, <1>9
  <2> QED BY <1>3, <1>9, <2>1, <2>2, LoadFacts, SharedReadIs
<1> HIDE DEF on, rs
<1>14. last \in Loads /\ CurrentOk(load[last], reads, shown, cached, asked)  BY LoadFacts
<1>15. Pending(on[last]) \cap Pages # {} =>
         last \notin over /\ rs[Decisions] = NoRequest /\ NotNewer(shown, cached, on[last].found.rows)
  <2>1. last \in over => Pending(on[last]) \cap Pages = {}  BY <1>3, <1>12, <1>14
  <2>2. CASE last \in walkers /\ on[last].found = got
    BY <1>5, <1>6, <1>13, <2>1, <2>2
  <2>3. CASE Pending(load[last]) \cap Pages # {} /\ on[last].found = load[last].found
    BY <1>13, <1>14, <2>1, <2>3 DEF CurrentOk
  <2> QED BY <1>12, <1>14, <2>2, <2>3
<1>16. last \in over => Pending(load[last]) \cap Deciding # {}  BY <1>3, <1>7
<1>17. \A l \in over : /\ snap[l] \in Snapshots({0}) /\ ~snap[l].failed /\ snap[l].rows # NoRows
                       /\ snap[l].rows <= newest /\ NotNewer(shown, cached, snap[l].rows)
  BY <1>4, <1>5, <1>6, <1>11
<1> QED BY <1>2, <1>7, <1>12, <1>13, <1>14, <1>15, <1>16, <1>17, DecisionsOverKeeps

\* Five seconds without the first page: the request goes on, late.
LEMMA DecisionsDeadlineKeeps ==
  ASSUME IInv, NEW l \in Loads, DecisionsDeadline(l)
  PROVE  IInv' /\ Forward
<1> DEFINE snap == [x \in {l} |-> Failed(0)]
           ls == [load EXCEPT ![l].awaits = @ \ {Decisions}, ![l].late = @ \cup {Decisions}]
           ld == [load[l] EXCEPT !.awaits = @ \ {Decisions}, !.late = @ \cup {Decisions}]
<1>1. /\ DecisionsOver({l}, snap, ls, reads) /\ UNCHANGED <<newest, asked, last, error>>
      /\ Decisions \in load[l].awaits
  BY DEF DecisionsDeadline
<1>2. /\ load \in [Loads -> LoadRecords] /\ reads \in [Keys -> Requests] /\ last \in Loads
      /\ load[l] \in LoadRecords /\ LoadOk(load[l])
      /\ CurrentOk(load[last], reads, shown, cached, asked)
  BY LoadFacts
<1>3. Decisions \in Deciding /\ Decisions \in Keys  BY KeysApart
<1>4. \A x \in {l} : /\ snap[x] \in Snapshots({0}) /\ snap[x].failed /\ snap[x].rows = NoRows
                     /\ snap[x].rows <= newest
  <2>1. Failed(0) \in Snapshots({0}) /\ Failed(0).failed /\ Failed(0).rows = NoRows
    <3>1. 0 \in {0}  OBVIOUS
    <3> QED BY <3>1, SnapshotsMade
  <2>2. newest \in Nat  BY LoadFacts
  <2>3. NoRows <= newest  BY <2>2 DEF NoRows
  <2>4. \A x \in {l} : snap[x] = Failed(0)  OBVIOUS
  <2> QED BY <2>1, <2>3, <2>4
<1>5. ls = [load EXCEPT ![l] = ld]  BY <1>2
<1>6. /\ ld \in LoadRecords /\ ld.awaits = load[l].awaits \ {Decisions}
      /\ ld.late = load[l].late \cup {Decisions}
      /\ ld.found = load[l].found /\ ld.asked = load[l].asked /\ ld.census = load[l].census
  BY <1>2, <1>3 DEF LoadRecords
<1> HIDE DEF snap, ls, ld
<1>7. \A m \in Loads : ls[m] = IF m = l THEN ld ELSE load[m]  BY <1>2, <1>5
<1>8. Pending(ld) = Pending(load[l]) /\ ld.awaits \cap ld.late \cap Deciding = {}
      /\ Decisions \in Pending(load[l])
  <2>1. load[l].awaits \cap load[l].late \cap Deciding = {}  BY <1>2 DEF LoadOk
  <2> QED BY <1>1, <1>6, <2>1 DEF Pending
<1>9. LoadOk(ld) /\ ~ld.census  BY <1>2, <1>6, <1>8, FewerPending DEF LoadOk
<1>10. \A m \in Loads : /\ ls[m] \in LoadRecords /\ LoadOk(ls[m]) /\ ls[m].found = load[m].found
                        /\ ls[m].found.rows <= newest
                        /\ ls[m].asked = load[m].asked /\ Pending(ls[m]) = Pending(load[m])
  BY <1>6, <1>7, <1>8, <1>9, LoadFacts
<1>11. Pending(ls[last]) \cap Pages # {} =>
         last # l /\ reads[Decisions] = NoRequest /\ NotNewer(shown, cached, ls[last].found.rows)
  <2>1. Pending(load[l]) \cap Pages = {}  BY <1>2, <1>8, KeysApart DEF LoadOk
  <2> QED BY <1>2, <1>10, <2>1 DEF CurrentOk
<1>12. last \in {l} => Pending(load[last]) \cap Deciding # {}  BY <1>3, <1>8
<1>13. {l} \in SUBSET Loads /\ \A x \in {l} : ~ls[x].census  BY <1>7, <1>9
<1> QED BY <1>1, <1>2, <1>4, <1>10, <1>11, <1>12, <1>13, DecisionsOverKeeps

-----------------------------------------------------------------------------
(* The walk                                                                *)

\* What a walk has in hand is a good answer, and for the current load one that is
\* not older than what is on screen.
LEMMA WalkInHand ==
  ASSUME IInv, NEW n \in 1..MaxPages, NEW l \in Loads, Page(n) \in Pending(load[l])
  PROVE  /\ load[l].found \in Snapshots({0}) /\ ~load[l].found.failed /\ load[l].found.rows # NoRows
         /\ load[l].found.rows <= newest /\ ~load[l].census
         /\ Page(n) \in Pending(load[l]) \cap Deciding
         /\ l = last => reads[Decisions] = NoRequest /\ NotNewer(shown, cached, load[l].found.rows)
<1>1. Page(n) \in Pages /\ Page(n) \in Deciding  BY KeysApart
<1>2. load[l] \in LoadRecords /\ LoadOk(load[l]) /\ load[l].found.rows <= newest
      /\ CurrentOk(load[last], reads, shown, cached, asked)
  BY LoadFacts
<1>3. Pending(load[l]) \cap Pages # {}  BY <1>1
<1>4. ~load[l].census /\ ~load[l].found.failed /\ load[l].found.rows # NoRows
  BY <1>1, <1>2, <1>3 DEF LoadOk
<1> QED BY <1>1, <1>2, <1>3, <1>4 DEF LoadRecords, CurrentOk

\* A walk that ends without its next page publishes what it has in hand.
LEMMA WalkStopsKeeps ==
  ASSUME IInv, UNCHANGED <<newest, asked, last, error>>, NEW n \in 1..MaxPages,
         NEW over \in SUBSET Loads, \A l \in over : Page(n) \in Pending(load[l]),
         NEW ls, NEW rs, rs \in [Keys -> Requests], rs[Decisions] = reads[Decisions],
         \A l \in Loads : /\ ls[l] \in LoadRecords /\ Pending(ls[l]) \subseteq Pending(load[l])
                          /\ ls[l].found = load[l].found /\ ls[l].asked = load[l].asked
                          /\ ls[l].census = load[l].census
                          /\ ls[l].awaits \cap ls[l].late \cap Deciding = {},
         \A l \in over : Page(n) \notin Pending(ls[l]),
         WalkStops(over, ls, rs)
  PROVE  IInv' /\ Forward
<1> DEFINE snap == [l \in over |-> load[l].found]
           ended == [l \in Loads |-> IF l \in over THEN [ls[l] EXCEPT !.found = Absent] ELSE ls[l]]
<1>1. DecisionsOver(over, snap, ended, rs)  BY DEF WalkStops
<1>2. \A l \in over : snap[l] = load[l].found  OBVIOUS
<1>3. \A l \in Loads : /\ l \in over => ended[l] = [ls[l] EXCEPT !.found = Absent]
                       /\ l \notin over => ended[l] = ls[l]
  OBVIOUS
<1> HIDE DEF snap, ended
<1>4. last \in Loads /\ CurrentOk(load[last], reads, shown, cached, asked) /\ newest \in 0..MaxRun
  BY LoadFacts
<1>5. Absent \in Snapshots({0}) /\ ~Absent.failed /\ Absent.rows <= newest
  BY <1>4, SnapshotsMade DEF NoRows
<1>6. ASSUME NEW l \in Loads
      PROVE  /\ ended[l] \in LoadRecords /\ LoadOk(ended[l]) /\ ended[l].found.rows <= newest
             /\ ended[l].asked = load[l].asked
             /\ l \in over => Pending(ended[l]) \cap Deciding = {} /\ ~ended[l].census
             /\ l \notin over => ended[l] = ls[l]
             /\ Pending(ended[l]) \subseteq Pending(load[l])
  <2>1. LoadOk(load[l]) /\ load[l].found.rows <= newest  BY LoadFacts
  <2>2. CASE l \in over
    <3>1. Page(n) \in Pending(load[l]) \cap Deciding  BY <2>2, KeysApart
    <3> DEFINE ld == ls[l]
    <3>5. ended[l] = [ld EXCEPT !.found = Absent] /\ ld \in LoadRecords  BY <1>3, <2>2
    <3> HIDE DEF ld
    <3>6. /\ ended[l] \in LoadRecords /\ ended[l].awaits = ld.awaits /\ ended[l].late = ld.late
          /\ ended[l].found = Absent /\ ended[l].asked = ld.asked /\ ended[l].census = ld.census
      BY <1>5, <3>5 DEF LoadRecords
    <3>2. /\ ended[l] \in LoadRecords /\ ended[l].awaits = ls[l].awaits /\ ended[l].late = ls[l].late
          /\ ended[l].found = Absent /\ ended[l].asked = ls[l].asked /\ ended[l].census = ls[l].census
      BY <3>6 DEF ld
    <3>3. Pending(ended[l]) \subseteq Pending(load[l]) \ {Page(n)}  BY <2>2, <3>2 DEF Pending
    <3>4. ended[l].asked = load[l].asked /\ ended[l].census = load[l].census  BY <3>2
    <3>7. ~ended[l].found.failed /\ ended[l].found.rows <= newest  BY <1>5, <3>2
    <3>8. LoadOk(ended[l]) /\ Pending(ended[l]) \cap Deciding = {} /\ ~ended[l].census
      BY <2>1, <3>1, <3>3, <3>4, <3>7, DecidingEnds
    <3> QED BY <2>2, <3>2, <3>3, <3>4, <3>7, <3>8
  <2>3. CASE l \notin over
    <3>1. ended[l] = ls[l]  BY <1>3, <2>3
    <3>2. /\ ls[l] \in LoadRecords /\ Pending(ls[l]) \subseteq Pending(load[l])
          /\ ls[l].found = load[l].found /\ ls[l].asked = load[l].asked
          /\ ls[l].census = load[l].census
          /\ ls[l].awaits \cap ls[l].late \cap Deciding = {}
      OBVIOUS
    <3>3. LoadOk(ls[l])  BY <2>1, <3>2, FewerPending
    <3> QED BY <2>1, <2>3, <3>1, <3>2, <3>3
  <2> QED BY <2>2, <2>3
<1>7. \A l \in over : /\ snap[l] \in Snapshots({0}) /\ ~snap[l].failed /\ snap[l].rows # NoRows
                      /\ snap[l].rows <= newest
                      /\ l = last => rs[Decisions] = NoRequest /\ NotNewer(shown, cached, snap[l].rows)
  BY <1>2, WalkInHand
<1>8. Pending(ended[last]) \cap Pages # {} =>
        last \notin over /\ rs[Decisions] = NoRequest /\ NotNewer(shown, cached, ended[last].found.rows)
  <2>1. last \in over => Pending(ended[last]) \cap Pages = {}  BY <1>4, <1>6, KeysApart
  <2>2. last \notin over => ended[last].found = load[last].found  BY <1>4, <1>6
  <2>3. Pending(ended[last]) \cap Pages # {} => Pending(load[last]) \cap Pages # {}  BY <1>4, <1>6
  <2> QED BY <1>4, <2>1, <2>2, <2>3 DEF CurrentOk
<1>9. last \in over => Pending(load[last]) \cap Deciding # {}  BY KeysApart
<1>10. \A r \in Runs : Trace(r) \in Pending(ended[last]) => Trace(r) \in Pending(load[last])
  BY <1>4, <1>6
<1> QED BY <1>1, <1>6, <1>7, <1>8, <1>9, <1>10, DecisionsOverKeeps

LEMMA PageStops ==
  ASSUME IInv, NEW n \in 1..MaxPages, PageFails(n) \/ \E l \in Loads : PageDeadline(l, n)
  PROVE  IInv' /\ Forward
<1>1. Page(n) \in Keys /\ Page(n) # Decisions  BY KeysApart
<1>2. load \in [Loads -> LoadRecords] /\ reads \in [Keys -> Requests]
      /\ \A l \in Loads : load[l] \in LoadRecords /\ LoadOk(load[l])
  BY LoadFacts
<1>3. CASE PageFails(n)
  <2> DEFINE over == Waiting(Page(n))
             ls == Released(Page(n))
             rs == Ended(Page(n))
  <2>1. WalkStops(over, ls, rs) /\ UNCHANGED <<newest, asked, last, error>>  BY <1>3 DEF PageFails
  <2>2. over \in SUBSET Loads /\ \A l \in over : Page(n) \in Pending(load[l])  BY DEF Waiting, Pending
  <2>3. rs \in [Keys -> Requests] /\ rs[Decisions] = reads[Decisions]  BY <1>1, EndedIs
  <2>4. \A l \in Loads : /\ ls[l] \in LoadRecords /\ Pending(ls[l]) = Pending(load[l]) \ {Page(n)}
                         /\ ls[l].found = load[l].found /\ ls[l].asked = load[l].asked
                         /\ ls[l].census = load[l].census
                         /\ ls[l].awaits = load[l].awaits \ {Page(n)} /\ ls[l].late = load[l].late \ {Page(n)}
    BY ReleasedIs
  <2> HIDE DEF over, ls, rs
  <2>5. \A l \in Loads : ls[l].awaits \cap ls[l].late \cap Deciding = {}  BY <1>2, <2>4 DEF LoadOk
  <2> QED BY <2>1, <2>2, <2>3, <2>4, <2>5, WalkStopsKeeps
<1>4. ASSUME NEW l \in Loads, PageDeadline(l, n)
      PROVE  IInv' /\ Forward
  <2> DEFINE ls == [load EXCEPT ![l].awaits = @ \ {Page(n)}]
             ld == [load[l] EXCEPT !.awaits = @ \ {Page(n)}]
  <2>1. WalkStops({l}, ls, reads) /\ UNCHANGED <<newest, asked, last, error>>
        /\ Page(n) \in load[l].awaits
    BY <1>4 DEF PageDeadline
  <2>2. ls = [load EXCEPT ![l] = ld]  BY <1>2
  <2>3. /\ ld \in LoadRecords /\ ld.awaits = load[l].awaits \ {Page(n)} /\ ld.late = load[l].late
        /\ ld.found = load[l].found /\ ld.asked = load[l].asked /\ ld.census = load[l].census
    BY <1>2 DEF LoadRecords
  <2> HIDE DEF ls, ld
  <2>4. \A m \in Loads : ls[m] = IF m = l THEN ld ELSE load[m]  BY <1>2, <2>2
  <2>5. \A m \in Loads : /\ ls[m] \in LoadRecords /\ Pending(ls[m]) \subseteq Pending(load[m])
                         /\ ls[m].found = load[m].found /\ ls[m].asked = load[m].asked
                         /\ ls[m].census = load[m].census
                         /\ ls[m].awaits \cap ls[m].late \cap Deciding = {}
    BY <1>2, <2>3, <2>4 DEF Pending, LoadOk
  <2>6. Page(n) \notin Pending(ls[l])
    <3>1. Page(n) \notin load[l].late  BY <1>2, <2>1, KeysApart DEF LoadOk
    <3> QED BY <2>3, <2>4, <3>1 DEF Pending
  <2>7. {l} \in SUBSET Loads /\ \A m \in {l} : Page(n) \in Pending(load[m]) /\ Page(n) \notin Pending(ls[m])
    BY <2>1, <2>6 DEF Pending
  <2>8. reads \in [Keys -> Requests] /\ UNCHANGED <<newest, asked, last, error>>  BY <1>2, <2>1
  <2> QED BY <2>1, <2>5, <2>7, <2>8, WalkStopsKeeps
<1> QED BY <1>3, <1>4

\* A page answers: the current load walks on, or publishes the newest run of all
\* the pages it read.
LEMMA PageAnsweredKeeps ==
  ASSUME IInv, NEW n \in 1..MaxPages, PageAnswered(n)
  PROVE  IInv' /\ Forward
<1>1. PICK u \in reads[Page(n)].seen..newest, more \in BOOLEAN :
       LET on == {l \in Waiting(Page(n)) : WalksOn(l, n, more)}
           over == Waiting(Page(n)) \ on
           wants == {<<l, Page(n + 1)>> : l \in on}
           snap == [l \in over |-> IF more THEN load[l].found
                                   ELSE [load[l].found EXCEPT !.rows = Max({@, u})]]
           ls == [l \in Loads |-> IF l \in over THEN [Released(Page(n))[l] EXCEPT !.found = Absent]
                                  ELSE Released(Page(n))[l]]
       IN  DecisionsOver(over, snap, Await(ls, wants), SharedRead(Ended(Page(n)), wants))
  BY DEF PageAnswered
<1> DEFINE on == {l \in Waiting(Page(n)) : WalksOn(l, n, more)}
           over == Waiting(Page(n)) \ on
           wants == {<<l, Page(n + 1)>> : l \in on}
           snap == [l \in over |-> IF more THEN load[l].found
                                   ELSE [load[l].found EXCEPT !.rows = Max({@, u})]]
           ls == [l \in Loads |-> IF l \in over THEN [Released(Page(n))[l] EXCEPT !.found = Absent]
                                  ELSE Released(Page(n))[l]]
           then == Await(ls, wants)
           rs == SharedRead(Ended(Page(n)), wants)
<1>2. DecisionsOver(over, snap, then, rs) /\ UNCHANGED <<newest, asked, last, error>>
  BY <1>1 DEF PageAnswered
<1>3. /\ Page(n) \in Pages /\ Page(n) \in Deciding /\ Page(n) \in Keys /\ Pages \subseteq Deciding
      /\ Deciding \subseteq Keys /\ Page(n) # Decisions /\ Decisions \notin Pages /\ Decisions \in Keys
  BY KeysApart
<1>4. on # {} => Page(n + 1) \in Pages /\ Page(n + 1) # Page(n)
  <2>1. on # {} => n + 1 \in 1..MaxPages  BY LocalPageBounds DEF WalksOn
  <2>2. Page(n + 1) # Page(n)  BY DEF Page
  <2> QED BY <2>1, <2>2, KeysApart
<1>5. u \in 0..MaxRun /\ u <= newest
  <2>1. reads[Page(n)].seen \in 0..MaxRun /\ newest \in 0..MaxRun  BY <1>3, LoadFacts DEF Requests
  <2> QED BY <2>1, LocalPageBounds
<1>6. /\ over \in SUBSET Loads /\ on \in SUBSET Loads /\ on \subseteq {last}
      /\ \A l \in over \cup on : Page(n) \in Pending(load[l])
      /\ \A l \in on : l \notin over
      /\ \A l \in Loads : l \in over \cup on \/ Page(n) \notin load[l].awaits
  BY DEF Waiting, WalksOn, Current, Pending
<1>7. \A l \in Loads :
        LET ld == Released(Page(n))[l]
        IN  /\ ld \in LoadRecords /\ LoadOk(ld) /\ ld.asked = load[l].asked
            /\ ld.census = load[l].census
            /\ ld.found = load[l].found /\ ld.found.rows <= newest
            /\ Pending(ld) = Pending(load[l]) \ {Page(n)}
            /\ Page(n) \in Pending(load[l]) => Pending(ld) \cap Deciding = {} /\ ~ld.census
  BY <1>3, ReleasedOk
<1>8. wants \subseteq Loads \X Keys /\ \A l, k : <<l, k>> \in wants <=> l \in on /\ k = Page(n + 1)
  BY <1>3, <1>4, <1>6
<1>9. \A l \in Loads : /\ l \in over => ls[l] = [Released(Page(n))[l] EXCEPT !.found = Absent]
                       /\ l \notin over => ls[l] = Released(Page(n))[l]
  OBVIOUS
<1>10. \A l \in over : snap[l] = IF more THEN load[l].found
                                  ELSE [load[l].found EXCEPT !.rows = Max({@, u})]
  OBVIOUS
<1> HIDE DEF on, over, wants, snap, ls
<1>11. last \in Loads /\ CurrentOk(load[last], reads, shown, cached, asked) /\ newest \in 0..MaxRun
       /\ shown \in Screens /\ cached \in Caches
  BY LoadFacts
<1>12. Absent \in Snapshots({0}) /\ ~Absent.failed /\ Absent.rows <= newest
  <2>1. 0 \in {0}  OBVIOUS
  <2> QED BY <1>11, <2>1, SnapshotsMade DEF NoRows
<1>13. ASSUME NEW l \in over
       PROVE  /\ snap[l] \in Snapshots({0}) /\ ~snap[l].failed /\ snap[l].rows # NoRows
              /\ snap[l].rows <= newest
              /\ l = last => reads[Decisions] = NoRequest /\ NotNewer(shown, cached, snap[l].rows)
  <2> DEFINE f == load[l].found
  <2>1. /\ f \in Snapshots({0}) /\ ~f.failed /\ f.rows # NoRows /\ f.rows <= newest
        /\ l = last => reads[Decisions] = NoRequest /\ NotNewer(shown, cached, f.rows)
    BY <1>6, WalkInHand
  <2> HIDE DEF f
  <2>2. CASE more
    <3>1. snap[l] = f  BY <1>10, <2>2 DEF f
    <3> QED BY <2>1, <3>1
  <2>3. CASE ~more
    <3> DEFINE m == Max({f.rows, u})
    <3>1. snap[l] = [f EXCEPT !.rows = m]  BY <1>10, <2>3 DEF f
    <3>2. f.rows \in 0..MaxRun  BY <2>1 DEF Snapshots, NoRows
    <3>7. f.rows \in Int /\ u \in Int  BY <1>5, <3>2
    <3>3. m \in {f.rows, u} /\ m >= f.rows  BY ONLY <3>7, GreaterOfTwo
    <3> HIDE DEF m
    <3>4. m \in 0..MaxRun /\ m <= newest  BY <1>5, <2>1, <3>2, <3>3
    <3>5. /\ snap[l] \in Snapshots({0}) /\ ~snap[l].failed /\ snap[l].rows = m
          /\ m # NoRows
      BY <2>1, <3>1, <3>4 DEF Snapshots, NoRows
    <3>6. NotNewer(shown, cached, f.rows) => NotNewer(shown, cached, m)
      BY <1>11, <3>2, <3>3, <3>4 DEF NotNewer, Screens, Caches, Snapshots, NoRows
    <3> QED BY <2>1, <3>4, <3>5, <3>6
  <2> QED BY <2>2, <2>3
<1>14. ASSUME NEW l \in Loads
       PROVE  /\ then[l] \in LoadRecords /\ LoadOk(then[l]) /\ then[l].asked = load[l].asked
              /\ then[l].found.rows <= newest
              /\ l \in over => Pending(then[l]) \cap Deciding = {} /\ ~then[l].census
              /\ \A r \in Runs : Trace(r) \in Pending(then[l]) => Trace(r) \in Pending(load[l])
              /\ l \notin over => then[l].found = load[l].found
              /\ Pending(then[l]) \cap Pages # {} => l \notin over /\ Pending(load[l]) \cap Pages # {}
  <2> DEFINE ld == Released(Page(n))[l]
  <2>1. /\ ld \in LoadRecords /\ LoadOk(ld) /\ ld.asked = load[l].asked
        /\ ld.census = load[l].census
        /\ ld.found = load[l].found /\ ld.found.rows <= newest
        /\ Pending(ld) = Pending(load[l]) \ {Page(n)}
        /\ Page(n) \in Pending(load[l]) => Pending(ld) \cap Deciding = {} /\ ~ld.census
    BY <1>7
  <2>2. LoadOk(load[l]) /\ (l \in over => ls[l] = [ld EXCEPT !.found = Absent])
        /\ (l \notin over => ls[l] = ld)
    BY <1>9, LoadFacts
  <2> HIDE DEF ld
  <2>3. /\ ls[l] \in LoadRecords /\ ls[l].awaits = ld.awaits /\ ls[l].late = ld.late
        /\ ls[l].asked = ld.asked /\ ls[l].census = ld.census
        /\ ls[l].found = IF l \in over THEN Absent ELSE ld.found
    BY <1>12, <2>1, <2>2 DEF LoadRecords
  <2>4. /\ then[l] \in LoadRecords /\ \A k : k \in then[l].awaits <=> k \in ls[l].awaits \/ <<l, k>> \in wants
        /\ then[l].asked = ls[l].asked /\ then[l].census = ls[l].census
        /\ then[l].late = ls[l].late /\ then[l].found = ls[l].found
    BY <1>8, <2>3, AwaitIs
  <2>5. CASE l \in on
    <3>1. /\ Page(n) \in Pending(load[l]) \cap Deciding /\ l \notin over
          /\ Page(n + 1) \in Pages
      BY <1>3, <1>4, <1>6, <2>5
    <3>2. Pending(then[l]) = (Pending(load[l]) \ {Page(n)}) \cup {Page(n + 1)}
      BY <1>8, <2>1, <2>3, <2>4, <2>5 DEF Pending
    <3>3. then[l].late \subseteq Pending(load[l]) \ {Page(n)}
      <4>1. then[l].late \subseteq Pending(ld)  BY <2>3, <2>4 DEF Pending
      <4> QED BY <2>1, <4>1
    <3>4. then[l].found = load[l].found /\ ~load[l].found.failed /\ load[l].found.rows # NoRows
      BY <2>1, <2>3, <2>4, <3>1, WalkInHand
    <3>5. then[l].asked = load[l].asked /\ then[l].census = load[l].census  BY <2>1, <2>3, <2>4
    <3>6. LoadOk(then[l])  BY <2>2, <3>1, <3>2, <3>3, <3>4, <3>5, WalkGoesOn
    <3>7. \A r \in Runs : Trace(r) \in Pending(then[l]) => Trace(r) \in Pending(load[l])
      BY <1>3, <3>1, <3>2, KeysApart
    <3>8. Pending(load[l]) \cap Pages # {}  BY <1>3, <3>1
    <3> QED BY <2>1, <2>4, <3>1, <3>4, <3>5, <3>6, <3>7, <3>8
  <2>6. CASE l \notin on
    <3>1. then[l].awaits = ld.awaits /\ then[l].late = ld.late  BY <1>8, <2>3, <2>4, <2>6
    <3>2. Pending(then[l]) = Pending(load[l]) \ {Page(n)}  BY <2>1, <3>1 DEF Pending
    <3>3. CASE l \in over
      <4>1. Page(n) \in Pending(load[l]) \cap Deciding  BY <1>3, <1>6, <3>3
      <4>2. then[l].found = Absent /\ then[l].asked = load[l].asked /\ then[l].census = load[l].census
        BY <2>1, <2>3, <2>4, <3>3
      <4>3. LoadOk(then[l]) /\ Pending(then[l]) \cap Deciding = {} /\ ~then[l].census
        BY <1>12, <2>2, <3>2, <4>1, <4>2, DecidingEnds
      <4>4. Pending(then[l]) \cap Pages = {}  BY <1>3, <4>3
      <4> QED BY <1>12, <2>4, <3>2, <3>3, <4>2, <4>3, <4>4
    <3>4. CASE l \notin over
      <4>1. then[l].found = ld.found /\ then[l].asked = ld.asked /\ then[l].census = ld.census
        BY <2>3, <2>4, <3>4
      <4>2. then[l].awaits \cap then[l].late \cap Deciding = {}  BY <2>1, <3>1 DEF LoadOk
      <4>3. Pending(then[l]) = Pending(ld)  BY <2>1, <3>2
      <4>4. LoadOk(then[l])  BY <2>1, <4>1, <4>2, <4>3, FewerPending
      <4> QED BY <2>1, <2>4, <3>2, <3>4, <4>1, <4>4
    <3> QED BY <3>3, <3>4
  <2> QED BY <2>5, <2>6
<1>15. rs \in [Keys -> Requests] /\ rs[Decisions] = reads[Decisions]
  <2>1. Ended(Page(n)) \in [Keys -> Requests] /\ Ended(Page(n))[Decisions] = reads[Decisions]
    BY <1>3, EndedIs
  <2>2. \A l : <<l, Decisions>> \notin wants  BY <1>3, <1>4, <1>8
  <2> QED BY <1>3, <1>8, <1>11, <2>1, <2>2, SharedReadIs
<1> HIDE DEF then, rs
<1>16. Pending(then[last]) \cap Pages # {} =>
         last \notin over /\ rs[Decisions] = NoRequest /\ NotNewer(shown, cached, then[last].found.rows)
  BY <1>11, <1>14, <1>15 DEF CurrentOk
<1>17. last \in over => Pending(load[last]) \cap Deciding # {}  BY <1>3, <1>6
<1> QED BY <1>2, <1>6, <1>11, <1>13, <1>14, <1>15, <1>16, <1>17, DecisionsOverKeeps

-----------------------------------------------------------------------------
(* The invariant                                                           *)

LEMMA InitIInv ==
  Init => IInv
<1> SUFFICES ASSUME Init PROVE IInv  OBVIOUS
<1>1. /\ newest \in 0..MaxRun /\ asked = 0 /\ last = 1 /\ error = FALSE /\ shown = NothingShown
      /\ load = [l \in Loads |-> IF l = 1 THEN [IdleLoad EXCEPT !.census = TRUE] ELSE IdleLoad]
      /\ reads = [k \in Keys |-> NoRequest]
      /\ cached = [dec |-> Absent, trace |-> [r \in Runs |-> Absent]]
  BY DEF Init
<1>2. 1 \in Loads /\ 0 \in 0..MaxRun /\ 0 \in {0}  BY LocalPageBounds DEF Loads
<1>3. Absent \in Snapshots({0}) /\ Absent \in Snapshots(0..MaxRun) /\ Absent.rows = NoRows
      /\ Absent.run = 0 /\ ~Absent.failed /\ NoRows <= newest
  <2>1. Absent \in Snapshots({0}) /\ Absent \in Snapshots(0..MaxRun)  BY <1>2, SnapshotsMade
  <2>2. NoRows <= newest  BY <1>1 DEF NoRows
  <2> QED BY <2>1, <2>2, SnapshotsMade
<1>4. ASSUME NEW l \in Loads
      PROVE  /\ load[l] \in LoadRecords /\ LoadOk(load[l]) /\ Pending(load[l]) = {}
             /\ load[l].asked = 0 /\ load[l].found = Absent
  <2>1. load[l] \in LoadRecords /\ load[l].awaits = {} /\ load[l].late = {} /\ load[l].asked = 0
        /\ load[l].found = Absent
    BY <1>1, <1>2, <1>3 DEF IdleLoad, LoadRecords
  <2> QED BY <1>3, <2>1 DEF LoadOk, Pending
<1>5. load \in [Loads -> LoadRecords]
  <2>1. load = [l \in Loads |-> load[l]]  BY <1>1
  <2> QED BY <1>4, <2>1
<1>6. reads \in [Keys -> Requests] /\ reads[Decisions] = NoRequest
  BY <1>1, <1>2, LocalPageBounds, KeysApart DEF Requests, NoRequest
<1>7. shown \in Screens /\ shown.dec = Absent /\ shown.trace = Absent
  BY <1>1, <1>3 DEF Screens, NothingShown
<1>8. cached \in Caches /\ cached.dec = Absent /\ \A r \in Runs : cached.trace[r] = Absent
  BY <1>1, <1>3 DEF Caches
<1>9. TypeOK
  BY <1>1, <1>2, <1>5, <1>6, <1>7, <1>8 DEF TypeOK, LoadRecords, Requests, Screens, Caches
<1>10. CurrentOk(load[last], reads, shown, cached, asked)
  BY <1>1, <1>2, <1>4 DEF CurrentOk
<1>11. ScreenOk(shown, asked) /\ CacheOk(shown, cached)
  BY <1>3, <1>7, <1>8 DEF ScreenOk, CacheOk
<1>12. ReadsOk(reads, shown, cached) /\ NotNewer(shown, cached, newest)
  BY <1>3, <1>6, <1>7, <1>8 DEF ReadsOk, NotNewer
<1> QED BY <1>3, <1>4, <1>9, <1>10, <1>11, <1>12 DEF IInv

LEMMA NextIInv ==
  IInv /\ [Next]_vars => IInv' /\ (Forward \/ UNCHANGED vars)
<1> SUFFICES ASSUME IInv, [Next]_vars PROVE IInv' /\ (Forward \/ UNCHANGED vars)  OBVIOUS
<1>1. CASE NewRun  BY <1>1, NewRunKeeps
<1>2. CASE Refresh  BY <1>2, RefreshKeeps
<1>3. CASE \E r \in 0..MaxRun : OpenRun(r)  BY <1>3, OpenRunKeeps
<1>4. CASE \E l \in Loads : CensusAnswered(l)  BY <1>4, CensusAnsweredKeeps
<1>5. CASE \E l \in Loads : Deadlines(l)
  <2>1. PICK l \in Loads : Deadlines(l)  BY <1>5
  <2> QED BY <2>1, CensusFailsKeeps, DecisionsDeadlineKeeps, PageStops, TraceStep DEF Deadlines
<1>6. CASE DecisionsAnswered \/ DecisionsFail  BY <1>6, DecisionsAnsweredKeeps, DecisionsFailKeeps
<1>7. CASE \E n \in 1..MaxPages : PageAnswered(n) \/ PageFails(n)
  BY <1>7, PageAnsweredKeeps, PageStops
<1>8. CASE \E r \in Runs : TraceAnswered(r) \/ TraceFails(r)  BY <1>8, TraceStep
<1>9. CASE UNCHANGED vars
  <2>1. IInv'  BY <1>9 DEF vars, IInv, TypeOK
  <2> QED BY <1>9, <2>1
<1> QED BY <1>1, <1>2, <1>3, <1>4, <1>5, <1>6, <1>7, <1>8, <1>9 DEF Next

\* Whatever loads overlap, answer late, fail or stop walking, each load has one
\* decisions request at a time and no load can publish decisions older than the
\* ones on screen (load, walkDecisions and publish of the local dashboard page).
THEOREM Inductive == Spec => []IInv
<1> QED BY InitIInv, NextIInv, PTL DEF Spec

\* Every variable keeps its type, for any number of loads, runs and pages; in
\* particular no walk asks for a page past the cap (walkDecisions).
THEOREM TypeCorrect == Spec => []TypeOK
<1>1. IInv => TypeOK  BY DEF IInv
<1> QED BY <1>1, Inductive, PTL

\* The run in the title is that of the address, or the newest of the decisions on
\* screen, and the steps under it are its own (publish, withLastGood, WorkflowRun).
THEOREM OneRun == Spec => []OneRunShown
<1>1. IInv => OneRunShown
  BY DEF IInv, ScreenOk, Target, OneRunShown, Says
<1> QED BY <1>1, Inductive, PTL

\* "No runs yet" is said of an answer that held none, never of a read that failed
\* or is still out (WorkflowRun, publish).
THEOREM NoRunsRead == Spec => []NoRunsIsRead
<1>1. IInv => NoRunsIsRead
  <2> SUFFICES ASSUME IInv, Says = "no runs" PROVE shown.dec = Good(0, 0)  BY DEF NoRunsIsRead
  <2>1. /\ shown.trace # Absent /\ shown.trace.run = 0 /\ ~shown.dec.failed
        /\ shown.dec.rows \in {0, NoRows}
    BY DEF Says
  <2>2. shown.dec # Absent /\ shown.dec \in Snapshots({0})
    BY <2>1 DEF IInv, ScreenOk, TypeOK
  <2>3. shown.dec = [failed |-> FALSE, run |-> 0, rows |-> shown.dec.rows]
    BY <2>1, <2>2 DEF Snapshots
  <2> QED BY <2>1, <2>2, <2>3 DEF Absent, Good
<1> QED BY <1>1, Inductive, PTL

\* The decisions on screen never go back to an older newest run: a load that was
\* overtaken publishes nothing, and one that walks has the newest (load, publish).
THEOREM DecisionsNeverGoBack == Spec => NeverGoesBack
<1>1. IInv /\ [Next]_vars =>
        [shown.dec.rows # NoRows /\ shown'.dec.rows # NoRows => shown'.dec.rows >= shown.dec.rows]_vars
  BY NextIInv DEF Forward
<1> QED BY <1>1, Inductive, PTL DEF Spec, NeverGoesBack

\* Decisions that become failed keep the rows that were on screen (withLastGood,
\* and the catalogue's failure).
THEOREM FailureKeeps == Spec => FailureKeepsDecisions
<1>1. IInv /\ [Next]_vars =>
        [shown'.dec.failed /\ ~shown.dec.failed => shown'.dec.rows = shown.dec.rows]_vars
  BY NextIInv DEF Forward
<1> QED BY <1>1, Inductive, PTL DEF Spec, FailureKeepsDecisions

-----------------------------------------------------------------------------
(* The order of the run list                                               *)

\* The order is a strict total one, whatever column sorts it.
LEMMA OrderIsTotal ==
  ASSUME NEW sort, NEW dir, NEW a \in Sample, NEW b \in Sample, NEW c \in Sample
  PROVE  /\ ~sortRuns(sort, dir, a, a)
         /\ sortRuns(sort, dir, a, b) /\ sortRuns(sort, dir, b, c) => sortRuns(sort, dir, a, c)
         /\ a # b => sortRuns(sort, dir, a, b) \/ sortRuns(sort, dir, b, a)
<1>1. ASSUME NEW r \in Sample PROVE r.id \in Nat /\ r.created \in Nat /\ r.cost \in Int /\ r.cost >= -1
  <2>1. r \in [id : Nat \ {0}, created : Nat, cost : Nat \cup {-1}, status : Statuses]  BY TableValues
  <2> QED BY <2>1
<1>2. a.id = b.id => a = b  BY TableValues
<1>3. CASE sort = "cost"  BY <1>1, <1>2, <1>3 DEF sortRuns, byRunTime
<1>4. CASE sort # "cost"  BY <1>1, <1>2, <1>4 DEF sortRuns, byRunTime
<1> QED BY <1>3, <1>4

\* R orders the members of S one after another.
Orders(R, S) ==
  /\ \A a \in S : <<a, a>> \notin R
  /\ \A a, b, c \in S : <<a, b>> \in R /\ <<b, c>> \in R => <<a, c>> \in R
  /\ \A a, b \in S : a # b => <<a, b>> \in R \/ <<b, a>> \in R

Before(R, S, x) == {y \in S : <<y, x>> \in R}
Rank(R, S) == [x \in S |-> Cardinality(Before(R, S, x)) + 1]

\* The ranks of a finite set number its members, and follow the order.
LEMMA RanksNumber ==
  ASSUME NEW S, IsFiniteSet(S), NEW R, Orders(R, S)
  PROVE  /\ Cardinality(S) \in Nat
         /\ Rank(R, S) \in Bijection(S, 1..Cardinality(S))
         /\ \A a, b \in S : <<a, b>> \in R => Rank(R, S)[a] < Rank(R, S)[b]
<1> DEFINE n == Cardinality(S)
           f == Rank(R, S)
           B(x) == Before(R, S, x)
<1>1. n \in Nat  BY FS_CardinalityType
<1>2. ASSUME NEW x \in S
      PROVE  IsFiniteSet(B(x)) /\ Cardinality(B(x)) \in 0..n - 1
  <2>1. B(x) \in SUBSET S /\ x \notin B(x)  BY DEF Orders, Before
  <2>2. IsFiniteSet(B(x)) /\ Cardinality(B(x)) <= n /\ (n = Cardinality(B(x)) => S = B(x))
    BY <2>1, FS_Subset
  <2>3. Cardinality(B(x)) \in Nat  BY <2>2, FS_CardinalityType
  <2> HIDE DEF B, n
  <2> QED BY <1>1, <2>1, <2>2, <2>3
<1>3. f \in [S -> 1..n] /\ \A x \in S : f[x] = Cardinality(B(x)) + 1
  <2> HIDE DEF B, n
  <2>1. f = [x \in S |-> Cardinality(B(x)) + 1]  BY DEF Rank, B
  <2>2. \A x \in S : Cardinality(B(x)) + 1 \in 1..n  BY <1>1, <1>2
  <2> QED BY <2>1, <2>2
<1>4. ASSUME NEW a \in S, NEW b \in S, <<a, b>> \in R PROVE f[a] < f[b]
  <2>1. B(a) \in SUBSET B(b)  BY <1>4 DEF Orders, Before
  <2>2. a \in B(b) /\ a \notin B(a)  BY <1>4 DEF Orders, Before
  <2> HIDE DEF B, f
  <2>3. Cardinality(B(a)) <= Cardinality(B(b)) /\ (Cardinality(B(b)) = Cardinality(B(a)) => B(b) = B(a))
    BY <1>2, <2>1, FS_Subset
  <2>4. Cardinality(B(a)) \in Int /\ Cardinality(B(b)) \in Int  BY <1>1, <1>2
  <2> QED BY <1>3, <2>2, <2>3, <2>4
<1>5. IsFiniteSet(1..n) /\ Cardinality(1..n) = n
  <2>1. IsFiniteSet(1..n) /\ Cardinality(1..n) = IF 1 > n THEN 0 ELSE n-1+1  BY <1>1, FS_Interval
  <2> HIDE DEF n
  <2> QED BY <1>1, <2>1
<1> HIDE DEF f, n, B
<1>6. \A a, b \in S : f[a] = f[b] => a = b
  <2> SUFFICES ASSUME NEW a \in S, NEW b \in S, a # b PROVE f[a] # f[b]
    OBVIOUS
  <2>1. f[a] < f[b] \/ f[b] < f[a]  BY <1>4 DEF Orders
  <2>2. f[a] \in Int /\ f[b] \in Int  BY <1>1, <1>3
  <2> QED BY <2>1, <2>2
<1>7. f \in Injection(S, 1..n)  BY <1>3, <1>6 DEF Injection, IsInjective
<1>8. f \in Surjection(S, 1..n)  BY <1>5, <1>7, FS_Injection DEF n
<1> QED BY <1>1, <1>4, <1>7, <1>8 DEF Bijection, f, n

\* The list holds every row at one place, and each place holds the row of its rank.
LEMMA InOrderIsAll ==
  ASSUME NEW S \in SUBSET Sample, NEW sort, NEW dir
  PROVE  LET n == Cardinality(S)
             s == inOrder(S, sort, dir)
         IN  /\ n \in Nat /\ s \in [1..n -> S]
             /\ \A r \in S : \E i \in 1..n : s[i] = r
             /\ \A i, j \in 1..n : i < j => sortRuns(sort, dir, s[i], s[j])
<1> DEFINE n == Cardinality(S)
           s == inOrder(S, sort, dir)
           R == {p \in S \X S : sortRuns(sort, dir, p[1], p[2])}
           f == Rank(R, S)
<1>1. IsFiniteSet(S)  BY TableValues, FS_Subset
<1>2. \A a, b \in S : <<a, b>> \in R <=> sortRuns(sort, dir, a, b)  OBVIOUS
<1>3. Orders(R, S)
  <2> HIDE DEF R
  <2> QED BY <1>2, OrderIsTotal DEF Orders
<1>4. /\ n \in Nat /\ f \in Bijection(S, 1..n)
      /\ \A a, b \in S : sortRuns(sort, dir, a, b) => f[a] < f[b]
  <2> HIDE DEF R
  <2> QED BY <1>1, <1>2, <1>3, RanksNumber
<1>5. \A r \in S, i \in 1..n : Cardinality({t \in S : sortRuns(sort, dir, t, r)}) = i - 1 <=> f[r] = i
  <2> SUFFICES ASSUME NEW r \in S, NEW i \in 1..n
               PROVE  Cardinality({t \in S : sortRuns(sort, dir, t, r)}) = i - 1 <=> f[r] = i
    OBVIOUS
  <2>1. f[r] = Cardinality(Before(R, S, r)) + 1  BY DEF Rank
  <2>4. Before(R, S, r) = {t \in S : sortRuns(sort, dir, t, r)}  BY <1>2 DEF Before
  <2>2. Cardinality(Before(R, S, r)) \in Int
    <3>1. Before(R, S, r) \in SUBSET S  BY DEF Before
    <3>2. IsFiniteSet(Before(R, S, r))  BY <1>1, <3>1, FS_Subset
    <3> QED BY <3>2, FS_CardinalityType
  <2>3. i \in Int  BY <1>4
  <2> HIDE DEF f, R
  <2> QED BY <2>1, <2>2, <2>3, <2>4
<1> HIDE DEF R
<1>6. s = [i \in 1..n |-> rowAt(S, sort, dir, i)]  BY DEF inOrder
<1>7. ASSUME NEW i \in 1..n PROVE s[i] \in S /\ f[s[i]] = i
  <2>1. PICK r \in S : f[r] = i  BY <1>4 DEF Bijection, Surjection
  <2>2. \E q \in S : Cardinality({t \in S : sortRuns(sort, dir, t, q)}) = i - 1  BY <1>5, <2>1
  <2>3. rowAt(S, sort, dir, i) \in S
        /\ Cardinality({t \in S : sortRuns(sort, dir, t, rowAt(S, sort, dir, i))}) = i - 1
    BY <2>2 DEF rowAt
  <2> HIDE DEF s, f
  <2> QED BY <1>5, <1>6, <2>3
<1>8. s \in [1..n -> S]
  <2>1. \A i \in 1..n : rowAt(S, sort, dir, i) \in S
    <3> HIDE DEF s
    <3> QED BY <1>6, <1>7
  <2> HIDE DEF s, n
  <2> QED BY <1>6, <2>1
<1>9. ASSUME NEW r \in S PROVE \E i \in 1..n : s[i] = r
  <2>1. f[r] \in 1..n  BY <1>4 DEF Bijection, Surjection
  <2>2. \A i \in 1..n : s[i] \in S /\ f[s[i]] = i  BY <1>7
  <2> HIDE DEF s, f, n
  <2>3. s[f[r]] = r  BY <1>4, <2>1, <2>2 DEF Bijection, Injection, IsInjective
  <2> QED BY <2>1, <2>3
<1>10. ASSUME NEW i \in 1..n, NEW j \in 1..n, i < j PROVE sortRuns(sort, dir, s[i], s[j])
  <2>1. s[i] \in S /\ s[j] \in S /\ f[s[i]] = i /\ f[s[j]] = j  BY <1>7
  <2>2. ~(f[s[j]] < f[s[i]]) /\ s[i] # s[j]
    <3> HIDE DEF f, s, n
    <3> QED BY <1>4, <1>10, <2>1
  <2>3. ~sortRuns(sort, dir, s[j], s[i])  BY <1>4, <2>1, <2>2
  <2>4. s[i] \in Sample /\ s[j] \in Sample  BY <2>1
  <2> HIDE DEF s, f, n
  <2> QED BY <2>2, <2>3, <2>4, OrderIsTotal
<1> HIDE DEF s, f, n
<1>11. /\ n \in Nat /\ s \in [1..n -> S] /\ \A r \in S : \E i \in 1..n : s[i] = r
      /\ \A i, j \in 1..n : i < j => sortRuns(sort, dir, s[i], s[j])
  BY <1>4, <1>8, <1>9, <1>10
<1> QED BY <1>11 DEF s, n

-----------------------------------------------------------------------------
(* The view in the address                                                 *)

Written == {"/overview", "/runs", "", "asc", "desc"} \cup Statuses \cup SortKeys \cup {"cost"}
             \cup UNION {{a.path, a.status, a.sort, a.dir, a.chart} : a \in Links}
Addresses == [path : Written, status : Written, q : DOMAIN Found, sort : Written,
              dir : Written, page : Int, chart : Written]
Views == [status : Statuses \cup {"all"}, query : DOMAIN Found, sort : SortKeys \cup {""},
          dir : {"", "asc", "desc"}, page : Nat \ {0}]

\* A direction is written with a sort only.
Proper(v) == v \in Views /\ (v.sort = "" <=> v.dir = "")

LEMMA ReadTyped ==
  ASSUME NEW a \in Addresses
  PROVE  /\ Proper(readRunsSearch(a))
         /\ readRunsSearch(a).query = a.q
<1> DEFINE v == readRunsSearch(a)
<1>1. a.q \in DOMAIN Found /\ a.page \in Int  BY DEF Addresses
<1>2. v = [status |-> v.status, query |-> v.query, sort |-> v.sort, dir |-> v.dir, page |-> v.page]
  BY DEF readRunsSearch
<1>3. v.status \in Statuses \cup {"all"} /\ v.query = a.q /\ v.sort \in SortKeys \cup {""}
  BY DEF readRunsSearch
<1>4. v.dir \in {"", "asc", "desc"} /\ (v.sort = "" <=> v.dir = "")
  BY DEF readRunsSearch, SortKeys
<1>5. v.page \in Nat \ {0}
  <2>1. v.page = IF a.page >= 1 THEN a.page ELSE 1  BY DEF readRunsSearch
  <2>2. 1 \in Nat \ {0}  OBVIOUS
  <2> HIDE DEF v
  <2>3. CASE a.page >= 1  BY <1>1, <2>1, <2>3
  <2>4. CASE ~(a.page >= 1)  BY <2>1, <2>2, <2>4
  <2> QED BY <2>3, <2>4
<1> HIDE DEF v
<1>6. v \in Views  BY <1>1, <1>2, <1>3, <1>4, <1>5 DEF Views
<1> QED BY <1>3, <1>4, <1>6 DEF v, Proper

LEMMA WriteTyped ==
  ASSUME NEW a \in Addresses, NEW v \in Views
  PROVE  /\ writeRunsSearch(a, v) \in Addresses
         /\ writeRunsSearch(a, v).path = a.path
<1>1. v.sort \in Written /\ v.dir \in Written /\ v.query \in DOMAIN Found
  BY DEF Views, Written
<1>2. (IF v.status = "all" THEN "" ELSE v.status) \in Written
  BY DEF Views, Written
<1>3. (IF v.page = 1 THEN 0 ELSE v.page) \in Int
  <2>1. v.page \in Nat \ {0}  BY DEF Views
  <2>2. v.page \in Int /\ 0 \in Int  BY <2>1
  <2> QED BY <2>2
<1> QED BY <1>1, <1>2, <1>3 DEF Addresses, writeRunsSearch

LEMMA SameView ==
  ASSUME NEW v \in Views, NEW w \in Views, v.status = w.status, v.query = w.query,
         v.sort = w.sort, v.dir = w.dir, v.page = w.page
  PROVE  v = w
<1>1. ASSUME NEW u \in Views
      PROVE  u = [status |-> u.status, query |-> u.query, sort |-> u.sort, dir |-> u.dir, page |-> u.page]
  BY DEF Views
<1>2. v = [status |-> v.status, query |-> v.query, sort |-> v.sort, dir |-> v.dir, page |-> v.page]  BY <1>1
<1>3. w = [status |-> w.status, query |-> w.query, sort |-> w.sort, dir |-> w.dir, page |-> w.page]  BY <1>1
<1> QED BY <1>2, <1>3

LEMMA SameAddress ==
  ASSUME NEW a \in Addresses, NEW b \in Addresses, a.path = b.path, a.status = b.status, a.q = b.q,
         a.sort = b.sort, a.dir = b.dir, a.page = b.page, a.chart = b.chart
  PROVE  a = b
BY DEF Addresses

\* An address that was written is read as the view it was written for.
LEMMA ReadsBack ==
  ASSUME NEW a \in Addresses, NEW v, Proper(v)
  PROVE  /\ readRunsSearch(writeRunsSearch(a, v)) = v
         /\ writeRunsSearch(writeRunsSearch(a, v), v) = writeRunsSearch(a, v)
<1> DEFINE b == writeRunsSearch(a, v)
           w == readRunsSearch(b)
<1>1. v \in Views /\ b \in Addresses  BY WriteTyped DEF Proper
<1>2. w \in Views  BY <1>1, ReadTyped DEF Proper
<1>3. /\ b.path = a.path /\ b.chart = a.chart /\ b.q = v.query /\ b.sort = v.sort /\ b.dir = v.dir
      /\ b.status = IF v.status = "all" THEN "" ELSE v.status
      /\ b.page = IF v.page = 1 THEN 0 ELSE v.page
  BY DEF Addresses, writeRunsSearch
<1>4. /\ v.status \in Statuses \cup {"all"} /\ v.sort \in SortKeys \cup {""} /\ v.dir \in {"", "asc", "desc"}
      /\ v.page \in Nat \ {0} /\ (v.sort = "" <=> v.dir = "")
  BY DEF Proper, Views
<1> HIDE DEF b
<1>5. w.status = v.status  BY <1>3, <1>4 DEF readRunsSearch, Statuses
<1>6. w.query = v.query  BY <1>3 DEF readRunsSearch
<1>7. w.sort = v.sort  BY <1>3, <1>4 DEF readRunsSearch, SortKeys
<1>8. w.dir = v.dir  BY <1>3, <1>4 DEF readRunsSearch, SortKeys
<1>9. w.page = v.page
  <2>1. w.page = IF b.page >= 1 THEN b.page ELSE 1  BY DEF readRunsSearch
  <2> HIDE DEF w
  <2>2. CASE v.page = 1
    <3>1. b.page = 0  BY <1>3, <2>2
    <3> QED BY <2>1, <2>2, <3>1
  <2>3. CASE v.page # 1
    <3>1. b.page = v.page /\ v.page \in Nat \ {0}  BY <1>3, <1>4, <2>3
    <3> QED BY <2>1, <3>1
  <2> QED BY <2>2, <2>3
<1>10. w = v  BY <1>1, <1>2, <1>5, <1>6, <1>7, <1>8, <1>9, SameView
<1>11. writeRunsSearch(b, v) = b
  <2> DEFINE c == writeRunsSearch(b, v)
  <2>1. c \in Addresses  BY <1>1, WriteTyped
  <2>2. /\ c.path = b.path /\ c.chart = b.chart /\ c.q = v.query /\ c.sort = v.sort /\ c.dir = v.dir
        /\ c.status = IF v.status = "all" THEN "" ELSE v.status
        /\ c.page = IF v.page = 1 THEN 0 ELSE v.page
    BY <1>1 DEF Addresses, writeRunsSearch
  <2> HIDE DEF c
  <2>3. /\ c.path = b.path /\ c.chart = b.chart /\ c.q = b.q /\ c.sort = b.sort /\ c.dir = b.dir
        /\ c.status = b.status /\ c.page = b.page
    BY <1>3, <2>2
  <2>4. c = b  BY ONLY <1>1, <2>1, <2>3, SameAddress
  <2> QED BY <2>4 DEF c
<1> QED BY <1>10, <1>11 DEF b

LEMMA LinksTyped ==
  /\ \A a \in Links \cup {Elsewhere} : a \in Addresses
  /\ \A r \in Sample : r.id \in Nat \ {0}
<1>1. ASSUME NEW a \in Links PROVE a \in Addresses
  <2>1. a \in [path : {a.path}, status : {a.status}, q : DOMAIN Found, sort : {a.sort},
               dir : {a.dir}, page : Int, chart : {a.chart}]
    BY TableValues
  <2>2. {a.path, a.status, a.sort, a.dir, a.chart} \subseteq Written  BY DEF Written
  <2> QED BY <2>1, <2>2 DEF Addresses
<1>2. Elsewhere \in Addresses
  <2>1. "" \in DOMAIN Found  BY TableValues
  <2>2. "/overview" \in Written /\ "" \in Written  BY DEF Written
  <2>3. 0 \in Int  OBVIOUS
  <2> QED BY <2>1, <2>2, <2>3 DEF Elsewhere, Addresses
<1>3. \A r \in Sample : r.id \in Nat \ {0}  BY TableValues
<1> QED BY <1>1, <1>2, <1>3

-----------------------------------------------------------------------------
(* Pages                                                                   *)

\* n rows fill p pages: the last one is begun, and all n are on them.
LEMMA PageCount ==
  ASSUME NEW n \in Nat, NEW k \in Nat \ {0}, NEW p, p = (n + k - 1) \div k
  PROVE  p \in Nat /\ n <= p * k /\ (n > 0 => p > 0)
OBVIOUS

LEMMA PageOf ==
  ASSUME NEW i \in Nat \ {0}, NEW k \in Nat \ {0}, NEW q, q = (i - 1) \div k
  PROVE  q \in Nat /\ q * k < i /\ i <= (q + 1) * k
OBVIOUS

LEMMA PagesTyped ==
  ASSUME NEW rs \in SUBSET Sample, NEW v \in Views
  PROVE  /\ matching(rs, v) \in SUBSET rs /\ Cardinality(matching(rs, v)) \in Nat
         /\ pages(rs, v) \in Nat \ {0} /\ current(rs, v) \in 1..pages(rs, v)
         /\ Cardinality(matching(rs, v)) <= pages(rs, v) * PageSize
         /\ current(rs, v) = Lesser(v.page, pages(rs, v))
<1> DEFINE n == Cardinality(matching(rs, v))
           p == (n + PageSize - 1) \div PageSize
<1>1. matching(rs, v) \in SUBSET rs  BY DEF matching
<1>2. n \in Nat
  <2>1. IsFiniteSet(matching(rs, v))  BY <1>1, TableValues, FS_Subset
  <2> QED BY <2>1, FS_CardinalityType
<1>3. PageSize \in Nat \ {0}  BY TableValues
<1>4. p \in Nat /\ n <= p * PageSize /\ (n > 0 => p > 0)
  <2> HIDE DEF n
  <2> QED BY <1>2, <1>3, PageCount
<1>5. pages(rs, v) = IF p = 0 THEN 1 ELSE p  BY DEF pages
<1>6. v.page \in Nat \ {0}  BY DEF Views
<1> HIDE DEF n, p
<1>7. pages(rs, v) \in Nat \ {0} /\ n <= pages(rs, v) * PageSize
  <2>1. CASE p = 0  BY <1>2, <1>3, <1>4, <1>5, <2>1
  <2>2. CASE p # 0  BY <1>4, <1>5, <2>2
  <2> QED BY <2>1, <2>2
<1>8. current(rs, v) = Lesser(v.page, pages(rs, v))  BY DEF current
<1>9. current(rs, v) \in 1..pages(rs, v)  BY <1>6, <1>7, <1>8 DEF Lesser
<1> QED BY <1>1, <1>2, <1>7, <1>8, <1>9 DEF n

\* The number of the page decides nothing but the page.
LEMMA SamePages ==
  ASSUME NEW rs, NEW v \in Views, NEW p \in Nat \ {0}
  PROVE  LET w == [v EXCEPT !.page = p] IN
         /\ w \in Views /\ w.page = p /\ (Proper(v) => Proper(w))
         /\ matching(rs, w) = matching(rs, v) /\ sorted(rs, w) = sorted(rs, v)
         /\ pages(rs, w) = pages(rs, v) /\ current(rs, w) = Lesser(p, pages(rs, v))
<1> DEFINE w == [v EXCEPT !.page = p]
<1>1. w \in Views /\ w.page = p  BY DEF Views
<1>2. w.status = v.status /\ w.query = v.query /\ w.sort = v.sort /\ w.dir = v.dir  BY DEF Views
<1> HIDE DEF w
<1>3. Proper(v) => Proper(w)  BY <1>1, <1>2 DEF Proper
<1>4. matching(rs, w) = matching(rs, v)  BY <1>2 DEF matching
<1>5. sorted(rs, w) = sorted(rs, v)  BY <1>2, <1>4 DEF sorted
<1>6. pages(rs, w) = pages(rs, v)  BY <1>4 DEF pages
<1>7. current(rs, w) = Lesser(p, pages(rs, v))  BY <1>1, <1>6 DEF current
<1> QED BY <1>1, <1>3, <1>4, <1>5, <1>6, <1>7 DEF w

\* The rows of a page are those at its places in the order.
LEMMA PageRows ==
  ASSUME NEW rs \in SUBSET Sample, NEW v \in Views
  PROVE  LET c == current(rs, v)
             n == Cardinality(matching(rs, v))
             s == sorted(rs, v)
             from == (c - 1) * PageSize
             to == Lesser(c * PageSize, n)
         IN  /\ from \in Nat /\ to \in Nat /\ to <= n /\ s \in [1..n -> matching(rs, v)]
             /\ pageRows(rs, v) = [i \in 1..to - from |-> s[i + from]]
             /\ pageIds(rs, v) = {s[i].id : i \in from + 1..to}
<1> DEFINE c == current(rs, v)
           n == Cardinality(matching(rs, v))
           s == sorted(rs, v)
           from == (c - 1) * PageSize
           to == Lesser(c * PageSize, n)
           page == pageRows(rs, v)
<1>1. n \in Nat /\ c \in Nat \ {0} /\ matching(rs, v) \in SUBSET Sample
  <2>1. pages(rs, v) \in Nat /\ c \in 1..pages(rs, v)  BY PagesTyped
  <2>2. c \in Nat \ {0}
    <3> HIDE DEF c
    <3> QED BY <2>1
  <2> QED BY <2>2, PagesTyped
<1>2. PageSize \in Nat \ {0}  BY TableValues
<1>3. s \in [1..n -> matching(rs, v)]  BY <1>1, InOrderIsAll DEF sorted
<1>4. page = SubSeq(s, from + 1, to)  BY DEF pageRows
<1> HIDE DEF c, n, s
<1>5. from \in Nat /\ c * PageSize \in Nat  BY <1>1, <1>2
<1>6. to \in Nat /\ to <= n  BY <1>1, <1>5 DEF Lesser
<1> HIDE DEF from, to, page
<1>7. page = [i \in 1..to - from |-> s[i + from]]
  <2>1. page = [i \in 1..1 + to - (from + 1) |-> s[i + (from + 1) - 1]]  BY <1>4, <1>5, <1>6
  <2>2. 1 + to - (from + 1) = to - from  BY <1>5, <1>6
  <2>3. \A i \in 1..to - from : s[i + (from + 1) - 1] = s[i + from]  BY <1>5, <1>6
  <2> QED BY <2>1, <2>2, <2>3
<1>8. pageIds(rs, v) = {s[i].id : i \in from + 1..to}
  <2>1. pageIds(rs, v) = {r.id : r \in {page[i] : i \in DOMAIN page}}  BY DEF pageIds, ToSet, page
  <2>2. DOMAIN page = 1..to - from /\ \A i \in 1..to - from : page[i] = s[i + from]  BY <1>7
  <2>3. \A x : x \in pageIds(rs, v) <=> \E i \in 1..to - from : x = s[i + from].id  BY <2>1, <2>2
  <2>4. ASSUME NEW x, NEW i \in 1..to - from, x = s[i + from].id PROVE \E j \in from + 1..to : x = s[j].id
    <3>1. i + from \in from + 1..to  BY <1>5, <1>6
    <3> QED BY <2>4, <3>1
  <2>5. ASSUME NEW x, NEW j \in from + 1..to, x = s[j].id PROVE \E i \in 1..to - from : x = s[i + from].id
    <3>1. j - from \in 1..to - from /\ (j - from) + from = j  BY <1>5, <1>6
    <3> QED BY <2>5, <3>1
  <2> QED BY <2>3, <2>4, <2>5
<1> QED BY <1>3, <1>5, <1>6, <1>7, <1>8 DEF c, n, s, from, to, page

\* A page that has rows has its first, and every id on it is that of a run.
LEMMA FirstOnPage ==
  ASSUME NEW rs \in SUBSET Sample, NEW v \in Views
  PROVE  /\ pageRows(rs, v) # <<>> => pageRows(rs, v)[1].id \in pageIds(rs, v)
         /\ pageIds(rs, v) \subseteq {r.id : r \in Sample}
<1> DEFINE c == current(rs, v)
           n == Cardinality(matching(rs, v))
           s == sorted(rs, v)
           from == (c - 1) * PageSize
           to == Lesser(c * PageSize, n)
           page == pageRows(rs, v)
<1>1. /\ from \in Nat /\ to \in Nat /\ to <= n /\ s \in [1..n -> matching(rs, v)]
      /\ page = [i \in 1..to - from |-> s[i + from]]
      /\ pageIds(rs, v) = {s[i].id : i \in from + 1..to}
  BY PageRows
<1>2. n \in Nat /\ matching(rs, v) \subseteq Sample  BY PagesTyped
<1> HIDE DEF c, n, s, from, to, page
<1>3. pageIds(rs, v) \subseteq {r.id : r \in Sample}
  <2>1. ASSUME NEW i \in from + 1..to PROVE s[i] \in Sample
    <3>1. i \in 1..n  BY <1>1, <1>2
    <3> QED BY <1>1, <1>2, <3>1
  <2> QED BY <1>1, <2>1
<1>4. ASSUME page # <<>> PROVE page[1].id \in pageIds(rs, v)
  <2>1. from < to
    <3> SUFFICES ASSUME ~(from < to) PROVE page = <<>>
      BY <1>4
    <3>1. 1..to - from = {}  BY <1>1
    <3> QED BY <1>1, <3>1
  <2>2. page[1] = s[1 + from]  BY <1>1, <2>1
  <2>3. 1 + from \in from + 1..to  BY <1>1, <2>1
  <2> QED BY <1>1, <2>2, <2>3
<1> QED BY <1>3, <1>4 DEF page

-----------------------------------------------------------------------------
(* The list keeps address, page and selection together                     *)

Ids == {r.id : r \in Sample}

TableInv ==
  /\ listed \in SUBSET Sample /\ selected \in {0} \cup Ids
  /\ history \in Seq(Addresses) /\ Len(history) \in 1..MaxHistory /\ at \in 1..Len(history)
  /\ AddressNamesPage /\ SelectionOnPage

LEMMA CommitKeeps ==
  ASSUME NEW rs \in SUBSET Sample, NEW entries \in Seq(Addresses), Len(entries) \in 1..MaxHistory,
         NEW i \in 1..Len(entries), NEW chosen \in {0} \cup Ids, Commit(rs, entries, i, chosen)
  PROVE  TableInv'
<1> DEFINE a == entries[i]
           v == readRunsSearch(a)
           c == current(rs, v)
           w == [v EXCEPT !.page = c]
           b == writeRunsSearch(a, w)
           page == pageRows(rs, v)
<1>1. /\ listed' = rs /\ at' = i
      /\ IF ~Mounted(rs, a) THEN history' = entries /\ selected' = 0
         ELSE /\ history' = [entries EXCEPT ![i] = b]
              /\ selected' = IF chosen = 0 \/ chosen \in pageIds(rs, v) THEN chosen
                             ELSE IF page = <<>> THEN 0 ELSE page[1].id
  BY DEF Commit
<1>2. a \in Addresses  OBVIOUS
<1>3. Proper(v) /\ v \in Views  BY <1>2, ReadTyped DEF Proper
<1>4. pages(rs, v) \in Nat \ {0} /\ c \in 1..pages(rs, v) /\ c = Lesser(v.page, pages(rs, v))
  BY <1>3, PagesTyped
<1>5. c \in Nat \ {0} /\ Lesser(c, pages(rs, v)) = c
  <2> HIDE DEF c
  <2> QED BY <1>4 DEF Lesser
<1>6. /\ w \in Views /\ w.page = c /\ Proper(w) /\ sorted(rs, w) = sorted(rs, v)
      /\ matching(rs, w) = matching(rs, v) /\ pages(rs, w) = pages(rs, v)
      /\ current(rs, w) = Lesser(c, pages(rs, v))
  <2> HIDE DEF v, c
  <2> QED BY <1>3, <1>5, SamePages
<1>7. pageIds(rs, w) = pageIds(rs, v)
  <2>1. pageRows(rs, w) = pageRows(rs, v)
    <3>1. current(rs, w) = current(rs, v)  BY <1>5, <1>6
    <3> QED BY <1>6, <3>1 DEF pageRows
  <2> QED BY <2>1 DEF pageIds
<1>8. /\ b \in Addresses /\ b.path = a.path
      /\ readRunsSearch(b) = w /\ writeRunsSearch(b, w) = b
  <2> HIDE DEF v, c, w, a
  <2> QED BY <1>2, <1>6, ReadsBack, WriteTyped
<1>9. /\ page # <<>> => page[1].id \in pageIds(rs, v)
      /\ pageIds(rs, v) \subseteq Ids
  <2> HIDE DEF v
  <2> QED BY <1>3, FirstOnPage DEF Ids
<1> HIDE DEF a, v, c, w, b, page
<1>10. CASE ~Mounted(rs, a)
  <2>1. history' = entries /\ selected' = 0 /\ address' = a
    BY <1>1, <1>10 DEF address, a
  <2>2. ~Mounted(listed, address)'  BY <1>1, <1>10, <2>1 DEF Mounted
  <2>3. AddressNamesPage' /\ SelectionOnPage'  BY <2>1, <2>2 DEF AddressNamesPage, SelectionOnPage
  <2> QED BY <1>1, <2>1, <2>3 DEF TableInv
<1>11. CASE Mounted(rs, a)
  <2>1. history' = [entries EXCEPT ![i] = b] /\ selected' \in {0} \cup pageIds(rs, v)
    BY <1>1, <1>9, <1>11
  <2>2. history' \in Seq(Addresses) /\ Len(history') = Len(entries) /\ history'[i] = b
    BY <1>8, <2>1
  <2>3. address' = b /\ view' = w  BY <1>1, <1>8, <2>2 DEF address, view
  <2>4. AddressNamesPage'
    <3>1. writeRunsSearch(address, view)' = address'  BY <1>8, <2>3
    <3>2. view'.page <= pages(listed, view)'
      <4>1. pages(listed, view)' = pages(rs, v)  BY <1>1, <1>6, <2>3 DEF pages, matching
      <4> QED BY <1>4, <1>6, <2>3, <4>1
    <3> QED BY <3>1, <3>2 DEF AddressNamesPage
  <2>5. SelectionOnPage'
    <3>1. Mounted(listed, address)'  BY <1>1, <1>8, <1>11, <2>3 DEF Mounted
    <3>2. pageIds(listed, view)' = pageIds(rs, v)
      BY <1>1, <1>7, <2>3 DEF pageIds, pageRows, sorted, current, pages, matching
    <3> QED BY <2>1, <3>1, <3>2 DEF SelectionOnPage
  <2> QED BY <1>1, <1>9, <2>1, <2>2, <2>4, <2>5 DEF TableInv
<1> QED BY <1>10, <1>11

LEMMA TableStarts == TableInit => TableInv
<1> SUFFICES ASSUME TableInit PROVE TableInv
  OBVIOUS
<1>1. PICK a \in Links : history = <<a>>  BY DEF TableInit
<1>2. a \in Addresses  BY LinksTyped
<1>3. listed = {} /\ at = 1 /\ selected = 0  BY DEF TableInit
<1>4. history \in Seq(Addresses) /\ Len(history) = 1  BY <1>1, <1>2
<1>5. 1 \in 1..MaxHistory
  <2>1. MaxHistory \in Nat \ {0}  BY TableValues
  <2> QED BY <2>1
<1>6. ~Mounted(listed, address)  BY <1>3 DEF Mounted
<1> QED BY <1>3, <1>4, <1>5, <1>6 DEF TableInv, AddressNamesPage, SelectionOnPage

\* A new entry drops the ones ahead of the present one.
LEMMA PushKeeps ==
  ASSUME TableInv, NEW a \in Addresses, NEW chosen \in {0} \cup Ids, Push(a, chosen)
  PROVE  TableInv'
<1> DEFINE entries == Append(SubSeq(history, 1, at), a)
<1>1. /\ history \in Seq(Addresses) /\ Len(history) \in 1..MaxHistory /\ at \in 1..Len(history)
      /\ listed \in SUBSET Sample
  BY DEF TableInv
<1>2. at < MaxHistory /\ Commit(listed, entries, at + 1, chosen)  BY DEF Push
<1>3. SubSeq(history, 1, at) \in Seq(Addresses) /\ Len(SubSeq(history, 1, at)) = at  BY <1>1
<1>4. entries \in Seq(Addresses) /\ Len(entries) = at + 1  BY <1>1, <1>3
<1>5. Len(entries) \in 1..MaxHistory /\ at + 1 \in 1..Len(entries)
  <2>1. MaxHistory \in Nat \ {0}  BY TableValues
  <2> HIDE DEF entries
  <2> QED BY <1>1, <1>2, <1>4, <2>1
<1> HIDE DEF entries
<1> QED BY <1>1, <1>2, <1>4, <1>5, CommitKeeps

LEMMA ReplaceKeeps ==
  ASSUME TableInv, NEW a \in Addresses, NEW chosen \in {0} \cup Ids, Replace(a, chosen)
  PROVE  TableInv'
<1> DEFINE entries == [history EXCEPT ![at] = a]
<1>1. /\ history \in Seq(Addresses) /\ Len(history) \in 1..MaxHistory /\ at \in 1..Len(history)
      /\ listed \in SUBSET Sample
  BY DEF TableInv
<1>2. Commit(listed, entries, at, chosen)  BY DEF Replace
<1>3. entries \in Seq(Addresses) /\ Len(entries) = Len(history)  BY <1>1
<1> HIDE DEF entries
<1> QED BY <1>1, <1>2, <1>3, CommitKeeps

LEMMA ViewTyped ==
  ASSUME TableInv
  PROVE  /\ address \in Addresses /\ view \in Views /\ selected \in {0} \cup Ids
         /\ \A v \in Views : writeRunsSearch(address, v) \in Addresses
<1>1. address \in Addresses  BY DEF TableInv, address
<1> QED BY <1>1, ReadTyped, WriteTyped DEF TableInv, view, Proper

LEMMA UpdateKeeps ==
  ASSUME TableInv, NEW v \in Views, updateView(v)
  PROVE  TableInv'
BY ViewTyped, PushKeeps DEF updateView

\* Every change of the view that the list offers is a view.
LEMMA ChangedViews ==
  ASSUME NEW v \in Views, NEW p, p = 1
  PROVE  /\ \A status \in Statuses \cup {"all"} : [v EXCEPT !.status = status, !.page = p] \in Views
         /\ \A q \in DOMAIN Found : [v EXCEPT !.query = q, !.page = p] \in Views
         /\ \A key \in SortKeys, dir \in {"", "asc", "desc"} :
               [v EXCEPT !.sort = key, !.page = p, !.dir = dir] \in Views
         /\ [v EXCEPT !.status = "all", !.query = "", !.page = p] \in Views
<1>1. p \in Nat \ {0}  OBVIOUS
<1>2. "" \in DOMAIN Found  BY TableValues
<1>3. "all" \in Statuses \cup {"all"}  OBVIOUS
<1>4. \A status \in Statuses \cup {"all"} : [v EXCEPT !.status = status, !.page = p] \in Views
  BY ONLY <1>1, v \in Views DEF Views
<1>5. \A q \in DOMAIN Found : [v EXCEPT !.query = q, !.page = p] \in Views
  BY ONLY <1>1, v \in Views DEF Views
<1>6. \A key \in SortKeys, dir \in {"", "asc", "desc"} :
        [v EXCEPT !.sort = key, !.page = p, !.dir = dir] \in Views
  BY ONLY <1>1, v \in Views DEF Views
<1>7. \A status \in Statuses \cup {"all"}, q \in DOMAIN Found :
        [v EXCEPT !.status = status, !.query = q, !.page = p] \in Views
  BY ONLY <1>1, v \in Views DEF Views
<1> QED BY <1>2, <1>3, <1>4, <1>5, <1>6, <1>7

LEMMA TableKeeps == TableInv /\ [TableNext]_tableVars => TableInv'
<1> SUFFICES ASSUME TableInv, [TableNext]_tableVars PROVE TableInv'
  OBVIOUS
<1>1. /\ address \in Addresses /\ view \in Views /\ selected \in {0} \cup Ids
      /\ \A v \in Views : writeRunsSearch(address, v) \in Addresses
  BY ViewTyped
<1>2. /\ history \in Seq(Addresses) /\ Len(history) \in 1..MaxHistory /\ at \in 1..Len(history)
      /\ listed \in SUBSET Sample
  BY DEF TableInv
<1>3. 0 \in {0} \cup Ids  OBVIOUS
<1>4. ASSUME NEW rs \in SUBSET Sample, Poll(rs) PROVE TableInv'
  BY <1>1, <1>2, <1>4, CommitKeeps DEF Poll
<1>5. ASSUME NEW status \in Statuses \cup {"all"}, filter(status) PROVE TableInv'
  <2>1. [view EXCEPT !.status = status, !.page = 1] \in Views  BY <1>1, ChangedViews
  <2> QED BY <1>5, <2>1, UpdateKeeps DEF filter
<1>6. ASSUME NEW q \in DOMAIN Found, search(q) PROVE TableInv'
  <2>1. [view EXCEPT !.query = q, !.page = 1] \in Views  BY <1>1, ChangedViews
  <2> QED BY <1>1, <1>6, <2>1, ReplaceKeeps DEF search
<1>7. ASSUME NEW key \in SortKeys, sortHeader(key) PROVE TableInv'
  <2> DEFINE dir == IF view.sort = key /\ view.dir = "desc" THEN "asc" ELSE "desc"
  <2>1. dir \in {"", "asc", "desc"}  OBVIOUS
  <2> HIDE DEF dir
  <2>2. [view EXCEPT !.sort = key, !.page = 1, !.dir = dir] \in Views  BY <1>1, <2>1, ChangedViews
  <2> QED BY <1>7, <2>2, UpdateKeeps DEF sortHeader, dir
<1>8. CASE clearFilters
  <2>1. [view EXCEPT !.status = "all", !.query = "", !.page = 1] \in Views  BY <1>1, ChangedViews
  <2> QED BY <1>1, <1>3, <1>8, <2>1, PushKeeps DEF clearFilters
<1>9. CASE Previous \/ NextPage
  <2>1. pages(listed, view) \in Nat \ {0} /\ current(listed, view) \in 1..pages(listed, view)
    BY <1>1, <1>2, PagesTyped
  <2>2. ASSUME NEW p \in Nat \ {0}, pager(p) PROVE TableInv'
    <3>1. [view EXCEPT !.page = p] \in Views  BY <1>1 DEF Views
    <3> QED BY <2>2, <3>1, UpdateKeeps DEF pager
  <2>3. CASE Previous
    <3>1. current(listed, view) - 1 \in Nat \ {0}  BY <2>1, <2>3 DEF Previous
    <3> QED BY <2>2, <2>3, <3>1 DEF Previous
  <2>4. CASE NextPage
    <3>1. current(listed, view) + 1 \in Nat \ {0}  BY <2>1
    <3> QED BY <2>2, <2>4, <3>1 DEF NextPage
  <2> QED BY <1>9, <2>3, <2>4
<1>10. ASSUME NEW id \in pageIds(listed, view) \cup {0}, selectRun(id) PROVE TableInv'
  <2>1. id \in {0} \cup Ids  BY <1>1, <1>2, FirstOnPage DEF Ids
  <2> QED BY <1>1, <1>10, <2>1, ReplaceKeeps DEF selectRun
<1>11. ASSUME NEW chart \in {"", "cost"}, selectTab(chart) PROVE TableInv'
  <2>1. chart \in Written  BY DEF Written
  <2>2. [address EXCEPT !.chart = chart] \in Addresses  BY <1>1, <2>1 DEF Addresses
  <2> QED BY <1>1, <1>11, <2>2, ReplaceKeeps DEF selectTab
<1>12. ASSUME NEW a \in Links \cup {Elsewhere}, Open(a) PROVE TableInv'
  <2>1. a \in Addresses  BY LinksTyped
  <2> QED BY <1>1, <1>3, <1>12, <2>1, PushKeeps DEF Open
<1>13. ASSUME NEW i \in Int, Go(i) PROVE TableInv'
  <2>1. i \in 1..Len(history)  BY <1>2, <1>13 DEF Go
  <2>2. PICK chosen \in {0} \cup Ids : Commit(listed, history, i, chosen)
    BY <1>1, <1>3, <1>13 DEF Go
  <2> QED BY <1>2, <2>1, <2>2, CommitKeeps
<1>14. CASE BrowserBack \/ BrowserForward
  <2>1. at - 1 \in Int /\ at + 1 \in Int  BY <1>2
  <2> QED BY <1>13, <1>14, <2>1 DEF BrowserBack, BrowserForward
<1>15. CASE UNCHANGED tableVars
  BY <1>15 DEF tableVars, TableInv, AddressNamesPage, SelectionOnPage, address, view
<1> QED BY <1>4, <1>5, <1>6, <1>7, <1>8, <1>9, <1>10, <1>11, <1>12, <1>14, <1>15 DEF TableNext

\* Page p of the list under a view holds the rows at the places (p - 1) * PageSize + 1
\* to p * PageSize.
LEMMA PageAt ==
  ASSUME NEW rs \in SUBSET Sample, NEW v \in Views, NEW p \in 1..pages(rs, v)
  PROVE  LET n == Cardinality(matching(rs, v))
             s == sorted(rs, v)
         IN  pageIds(rs, [v EXCEPT !.page = p])
               = {s[i].id : i \in (p - 1) * PageSize + 1..Lesser(p * PageSize, n)}
<1> DEFINE n == Cardinality(matching(rs, v))
           s == sorted(rs, v)
           w == [v EXCEPT !.page = p]
<1>1. pages(rs, v) \in Nat \ {0} /\ p \in Nat \ {0}  BY PagesTyped
<1>2. /\ w \in Views /\ matching(rs, w) = matching(rs, v) /\ sorted(rs, w) = s
      /\ current(rs, w) = Lesser(p, pages(rs, v))
  <2> HIDE DEF w
  <2> QED BY <1>1, SamePages DEF w
<1>3. current(rs, w) = p
  <2> HIDE DEF w
  <2> QED BY <1>1, <1>2 DEF Lesser
<1> HIDE DEF w
<1>4. pageIds(rs, w) = {s[i].id : i \in (p - 1) * PageSize + 1..Lesser(p * PageSize, n)}
  <2>1. pageIds(rs, w) = {sorted(rs, w)[i].id : i \in (current(rs, w) - 1) * PageSize + 1
                             ..Lesser(current(rs, w) * PageSize, Cardinality(matching(rs, w)))}
    BY <1>2, PageRows
  <2> QED BY <1>2, <1>3, <2>1
<1> QED BY <1>4 DEF w

LEMMA ListCoversMatches ==
  ASSUME NEW rs \in SUBSET Sample, NEW v \in Views
  PROVE  LET on(p) == pageIds(rs, [v EXCEPT !.page = p])
         IN  /\ UNION {on(p) : p \in 1..pages(rs, v)} = {r.id : r \in matching(rs, v)}
             /\ \A p, q \in 1..pages(rs, v) : p # q => on(p) \cap on(q) = {}
<1> DEFINE n == Cardinality(matching(rs, v))
           s == sorted(rs, v)
           m == matching(rs, v)
           on(p) == pageIds(rs, [v EXCEPT !.page = p])
           places(p) == (p - 1) * PageSize + 1..Lesser(p * PageSize, n)
           P == pages(rs, v)
<1>1. PageSize \in Nat \ {0}  BY TableValues
<1>2. n \in Nat /\ P \in Nat \ {0} /\ n <= P * PageSize /\ m \subseteq Sample
  BY PagesTyped
<1>3. /\ s \in [1..n -> m] /\ \A r \in m : \E i \in 1..n : s[i] = r
      /\ \A i, j \in 1..n : i < j => sortRuns(v.sort, v.dir, s[i], s[j])
  BY <1>2, InOrderIsAll DEF sorted
<1>4. \A p \in 1..P : on(p) = {s[i].id : i \in places(p)}  BY PageAt
<1> HIDE DEF n, s, m, on, P
<1>5. ASSUME NEW i \in 1..n, NEW j \in 1..n, s[i].id = s[j].id PROVE i = j
  <2>1. s[i] \in Sample /\ s[j] \in Sample  BY <1>2, <1>3
  <2>2. s[i] = s[j]  BY <1>5, <2>1, TableValues
  <2>3. ~(i < j) /\ ~(j < i)  BY <1>3, <2>1, <2>2, OrderIsTotal
  <2> QED BY <1>2, <2>3
<1>6. ASSUME NEW p \in 1..P, NEW i \in places(p) PROVE i \in 1..n
  <2>1. (p - 1) * PageSize \in Nat /\ p * PageSize \in Nat  BY <1>1, <1>2
  <2>2. Lesser(p * PageSize, n) <= n /\ Lesser(p * PageSize, n) \in Nat  BY <1>2, <2>1 DEF Lesser
  <2> QED BY <1>2, <2>1, <2>2
<1>7. ASSUME NEW i \in 1..n PROVE \E p \in 1..P : i \in places(p)
  <2> DEFINE q == (i - 1) \div PageSize
  <2>1. q \in Nat /\ q * PageSize < i /\ i <= (q + 1) * PageSize
    <3>1. i \in Nat \ {0}  BY <1>2
    <3> QED BY <1>1, <3>1, PageOf
  <2> HIDE DEF q
  <2>2. q + 1 \in 1..P
    <3>1. q * PageSize < P * PageSize  BY <1>1, <1>2, <2>1
    <3>2. q < P
      <4> SUFFICES ASSUME P <= q PROVE FALSE
        BY <1>2, <2>1
      <4>1. P * PageSize <= q * PageSize  BY <1>1, <1>2, <2>1
      <4> QED BY <1>1, <1>2, <2>1, <3>1, <4>1
    <3> QED BY <1>2, <2>1, <3>2
  <2>3. i \in places(q + 1)
    <3>1. i <= Lesser((q + 1) * PageSize, n)  BY <1>2, <2>1 DEF Lesser
    <3>2. Lesser((q + 1) * PageSize, n) \in Int  BY <1>1, <1>2, <2>1 DEF Lesser
    <3>3. (q + 1) - 1 = q  BY <2>1
    <3> QED BY <1>1, <1>2, <2>1, <3>1, <3>2, <3>3
  <2> HIDE DEF places
  <2> QED BY <2>2, <2>3
<1>8. ASSUME NEW p \in 1..P, NEW q \in 1..P, p < q, NEW i \in places(p), NEW j \in places(q) PROVE i # j
  <2>1. p \in Nat /\ q - 1 \in Nat /\ p <= q - 1  BY <1>2, <1>8
  <2>2. p * PageSize <= (q - 1) * PageSize  BY <1>1, <2>1
  <2>3. p * PageSize \in Nat /\ (q - 1) * PageSize \in Nat  BY <1>1, <2>1
  <2>4. i <= p * PageSize
    <3>1. Lesser(p * PageSize, n) <= p * PageSize /\ Lesser(p * PageSize, n) \in Int
      BY <1>2, <2>3 DEF Lesser
    <3>2. (p - 1) * PageSize \in Int  BY <1>1, <2>1
    <3> QED BY <2>3, <3>1, <3>2
  <2>5. j > (q - 1) * PageSize
    <3>1. Lesser(q * PageSize, n) \in Int
      <4>1. q * PageSize \in Int  BY <1>1, <1>2
      <4> QED BY <1>2, <4>1 DEF Lesser
    <3> QED BY <2>3, <3>1
  <2>6. i \in Int /\ j \in Int  BY <1>2, <1>6
  <2> HIDE DEF places
  <2> QED BY <2>2, <2>3, <2>4, <2>5, <2>6
<1> HIDE DEF places
<1>9. UNION {on(p) : p \in 1..P} = {r.id : r \in m}
  <2>1. ASSUME NEW p \in 1..P, NEW x \in on(p) PROVE \E r \in m : x = r.id
    <3>1. PICK i \in places(p) : x = s[i].id  BY <1>4, <2>1
    <3>2. s[i] \in m  BY <1>3, <1>6, <3>1
    <3> QED BY <3>1, <3>2
  <2>2. ASSUME NEW r \in m PROVE \E p \in 1..P : r.id \in on(p)
    <3>1. PICK i \in 1..n : s[i] = r  BY <1>3
    <3>2. PICK p \in 1..P : i \in places(p)  BY <1>7
    <3> QED BY <1>4, <3>1, <3>2
  <2> QED BY <2>1, <2>2
<1>10. ASSUME NEW p \in 1..P, NEW q \in 1..P, p # q PROVE on(p) \cap on(q) = {}
  <2> SUFFICES ASSUME NEW x \in on(p), x \in on(q) PROVE FALSE
    OBVIOUS
  <2>1. PICK i \in places(p) : x = s[i].id  BY <1>4
  <2>2. PICK j \in places(q) : x = s[j].id  BY <1>4
  <2>3. i = j  BY <1>5, <1>6, <2>1, <2>2
  <2>4. p < q \/ q < p  BY <1>2, <1>10
  <2> QED BY <1>8, <2>3, <2>4
<1>11. /\ UNION {on(p) : p \in 1..P} = {r.id : r \in m}
       /\ \A p, q \in 1..P : p # q => on(p) \cap on(q) = {}
  BY <1>9, <1>10
<1> QED BY <1>11 DEF on, P, m

LEMMA TableInvSays == TableInv => TableTypeOK /\ PageIsOne
<1> SUFFICES ASSUME TableInv PROVE TableTypeOK /\ PageIsOne
  OBVIOUS
<1>1. PagesCoverMatches
  <2>1. listed \in SUBSET Sample /\ view \in Views  BY ViewTyped DEF TableInv
  <2> QED BY <2>1, ListCoversMatches DEF PagesCoverMatches
<1>2. \A a \in Addresses : DOMAIN a = DOMAIN Elsewhere
  BY DEF Addresses, Elsewhere
<1>3. DOMAIN history = 1..Len(history) /\ \A i \in 1..Len(history) : history[i] \in Addresses
  BY DEF TableInv
<1> QED BY <1>1, <1>2, <1>3 DEF TableInv, TableTypeOK, PageIsOne, Ids

-----------------------------------------------------------------------------
(* The runs that are counted                                               *)

RunRows == [id : Nat, created : Nat, written : Nat, gate : {k.gate : k \in Kinds}, ok : {k.ok : k \in Kinds},
            typed : {k.typed : k \in Kinds}, lead : {k.lead : k \in Kinds},
            model : {k.model : k \in Kinds}, task : {k.task : k \in Kinds}, latency : Nat \cup {-1}]

FiguresInv == FiguresTypeOK /\ store \in Seq(RunRows)

LEMMA FigureValues ==
  /\ MaxRuns \in Nat /\ MaxClock \in Nat
  /\ TicksPerDay \in Nat \ {0} /\ Limit \in Nat \ {0} /\ Days \in Nat \ {0}
  /\ \A k \in Kinds : k.latency \in Nat \cup {-1}
BY RunValues

LEMMA RowTyped ==
  ASSUME NEW i \in Nat, NEW c \in Nat, NEW w \in Nat, NEW kind \in Kinds
  PROVE  /\ Row(i, c, w, kind) \in RunRows
         /\ Row(i, c, w, kind).id = i /\ Row(i, c, w, kind).created = c /\ Row(i, c, w, kind).written = w
BY FigureValues DEF Row, RunRows

\* The store has at most one run for each of its places.
LEMMA StoredIsFinite ==
  ASSUME FiguresInv
  PROVE  /\ IsFiniteSet(Stored) /\ Cardinality(Stored) \in 0..MaxRuns
         /\ Stored \subseteq RunRows
         /\ \A r, s \in Stored : r.id = s.id => r = s
<1>1. store \in Seq(RunRows) /\ Len(store) \in Nat /\ Len(store) <= MaxRuns /\ DOMAIN store = 1..Len(store)
  BY DEF FiguresInv, FiguresTypeOK
<1>2. Stored = {store[i] : i \in 1..Len(store)}  BY <1>1 DEF Stored, ToSet
<1> DEFINE n == Len(store)
<1>3. store \in [1..n -> Stored] /\ \A r \in Stored : \E i \in 1..n : store[i] = r
  BY <1>1, <1>2
<1>4. store \in Surjection(1..n, Stored)  BY <1>3 DEF Surjection
<1>5. IsFiniteSet(1..n) /\ Cardinality(1..n) = n
  <2>2. n \in Nat  BY <1>1 DEF n
  <2>3. n \in Int /\ 1 \in Int  BY <2>2
  <2> HIDE DEF n
  <2>1. IsFiniteSet(1..n) /\ Cardinality(1..n) = IF 1 > n THEN 0 ELSE n-1+1  BY ONLY <2>3, FS_Interval
  <2> QED BY <2>1, <2>2
<1>6. IsFiniteSet(Stored) /\ Cardinality(Stored) <= n  BY <1>4, <1>5, FS_Surjection
<1>7. Cardinality(Stored) \in Nat  BY <1>6, FS_CardinalityType
<1>8. Cardinality(Stored) \in 0..MaxRuns  BY <1>1, <1>6, <1>7, FigureValues
<1>9. Stored \subseteq RunRows  BY <1>1, <1>2
<1>10. \A i \in 1..n : store[i].id = i  BY <1>1 DEF FiguresInv, FiguresTypeOK
<1>11. \A r, s \in Stored : r.id = s.id => r = s  BY <1>2, <1>10
<1> QED BY <1>6, <1>8, <1>9, <1>11

\* The read returns the newest rows: with a row it returns every row written later
\* or at the same time.
LEMMA ReadIsNewest ==
  ASSUME FiguresInv, NEW r \in rows, NEW s \in Stored, s.written >= r.written
  PROVE  s \in rows
<1> DEFINE R == {t \in Stored : t.written > r.written}
           S == {t \in Stored : t.written > s.written}
<1>1. r \in Stored /\ Cardinality(R) < Limit  BY DEF rows
<1>2. r \in RunRows /\ s \in RunRows /\ \A t \in Stored : t.written \in Nat
  BY <1>1, StoredIsFinite DEF RunRows
<1>3. r.written \in Nat /\ s.written \in Nat  BY <1>2 DEF RunRows
<1>4. R \in SUBSET Stored /\ S \in SUBSET R  BY <1>2, <1>3
<1>5. IsFiniteSet(R)  BY <1>4, StoredIsFinite, FS_Subset
<1>6. IsFiniteSet(S) /\ Cardinality(S) <= Cardinality(R)  BY <1>4, <1>5, FS_Subset
<1>7. Cardinality(R) \in Nat /\ Cardinality(S) \in Nat  BY <1>5, <1>6, FS_CardinalityType
<1> HIDE DEF R, S
<1>8. Cardinality(S) < Limit  BY <1>1, <1>6, <1>7, FigureValues
<1> QED BY <1>8 DEF S, rows

-----------------------------------------------------------------------------
(* Windows                                                                 *)

LEMMA DayBounds ==
  ASSUME NEW t \in Nat, NEW k \in Nat \ {0}, NEW d \in Int
  PROVE  /\ t \div k \in Nat
         /\ t \div k >= d => t >= d * k
         /\ t \div k < d => t < d * k
OBVIOUS

InsightOf(r) ==
  [id |-> r.id, at |-> r.written, day |-> utcDay(r.written), status |-> runVerdict(r),
   cause |-> IF runVerdict(r) = FALSE THEN failureCauseOf(r) ELSE Unserved,
   latency |-> r.latency, model |-> r.model, task |-> r.task]

LEMMA InsightsOf ==
  /\ \A S : toInsightRuns(S) = {InsightOf(r) : r \in S}
  /\ \A r : InsightOf(r).id = r.id /\ InsightOf(r).at = r.written /\ InsightOf(r).day = utcDay(r.written)
BY DEF toInsightRuns, InsightOf

\* Days whose runs were all read are counted as if everything had been.
LEMMA ReadDays ==
  ASSUME NEW D, \A s \in Stored : utcDay(s.written) \in D => s \in rows
  PROVE  {run \in toInsightRuns(rows) : run.day \in D} = {run \in toInsightRuns(Stored) : run.day \in D}
<1> DEFINE read == {InsightOf(r) : r \in rows}
           all == {InsightOf(r) : r \in Stored}
<1>1. rows \subseteq Stored  BY DEF rows
<1>2. toInsightRuns(rows) = read /\ toInsightRuns(Stored) = all  BY InsightsOf
<1>3. read \subseteq all  BY <1>1
<1>4. ASSUME NEW run \in all, run.day \in D PROVE run \in read
  <2>1. PICK s \in Stored : run = InsightOf(s)  BY <1>4
  <2>2. s \in rows  BY <1>4, <2>1, InsightsOf
  <2> QED BY <2>1, <2>2
<1> HIDE DEF read, all
<1> QED BY <1>2, <1>3, <1>4

\* A row before a day proves that every run from that day on was read.
LEMMA ReachesBack ==
  ASSUME FiguresInv, NEW r \in rows, NEW d \in Int, r.written <= d * TicksPerDay,
         NEW s \in Stored, utcDay(s.written) >= d
  PROVE  s \in rows
<1>1. r \in Stored  BY DEF rows
<1>2. r.written \in Nat /\ s.written \in Nat  BY <1>1, StoredIsFinite DEF RunRows
<1>3. s.written >= d * TicksPerDay  BY <1>2, FigureValues, DayBounds DEF utcDay
<1>4. d * TicksPerDay \in Int  BY FigureValues
<1>5. s.written >= r.written  BY <1>2, <1>3, <1>4
<1> QED BY <1>5, ReadIsNewest

LEMMA ComparisonWhole == FiguresInv => ComparisonIsWhole
<1> SUFFICES ASSUME FiguresInv PROVE ComparisonIsWhole
  OBVIOUS
<1> DEFINE first == Today - 2 * Days + 1
<1>1. Today \in Int /\ Days \in Nat \ {0}
  <2>1. clock \in Nat  BY FigureValues DEF FiguresInv, FiguresTypeOK
  <2> QED BY <2>1, FigureValues DEF Today
<1>2. first \in Int  BY <1>1
<1>3. ASSUME compareWindow(rows, Today, Days).complete,
             NEW s \in Stored, utcDay(s.written) >= first
      PROVE  s \in rows
  <2>1. PICK run \in toInsightRuns(rows) : run.at <= first * TicksPerDay
    BY <1>3 DEF compareWindow, previousComplete
  <2>2. PICK r \in rows : r.written <= first * TicksPerDay  BY <2>1, InsightsOf
  <2> HIDE DEF first
  <2> QED BY <1>2, <1>3, <2>2, ReachesBack
<1>4. ASSUME NEW end \in {Today, Today - Days}, NEW d \in windowDays(end, Days)
      PROVE  d \in Int /\ d >= first
  BY <1>1, <1>4 DEF windowDays
<1>5. ASSUME compareWindow(rows, Today, Days).complete, NEW end \in {Today, Today - Days}
      PROVE  windowRuns(toInsightRuns(rows), end, Days) = windowRuns(toInsightRuns(Stored), end, Days)
  <2>1. \A s \in Stored : utcDay(s.written) \in windowDays(end, Days) => s \in rows
    <3> HIDE DEF first
    <3> QED BY <1>3, <1>4, <1>5
  <2> QED BY <2>1, ReadDays DEF windowRuns, selectedRuns
<1> QED BY <1>5 DEF ComparisonIsWhole, compareWindow

LEMMA MedianWhole == FiguresInv => MedianIsOfWindow
<1> SUFFICES ASSUME FiguresInv, NEW from \in AllDays, NEW to \in AllDays,
                    OverviewStatusStrip(rows, from, to) # {}
             PROVE  OverviewStatusStrip(rows, from, to)
                      = {run \in toInsightRuns(Stored) : run.day \in from..to}
  BY DEF MedianIsOfWindow
<1>1. from \in Int /\ to \in Int  BY DEF AllDays
<1>2. /\ complete \/ covered(toInsightRuns(rows), from)
      /\ OverviewStatusStrip(rows, from, to) = {run \in toInsightRuns(rows) : run.day \in from..to}
  BY DEF OverviewStatusStrip
<1>3. ASSUME NEW s \in Stored, utcDay(s.written) \in from..to PROVE s \in rows
  <2>1. CASE complete  BY <2>1 DEF complete
  <2>2. CASE covered(toInsightRuns(rows), from)
    <3>1. PICK r \in rows : utcDay(r.written) < from  BY <2>2, InsightsOf DEF covered
    <3>2. r \in Stored  BY DEF rows
    <3>3. r.written \in Nat  BY <3>2, StoredIsFinite DEF RunRows
    <3>4. r.written < from * TicksPerDay  BY <1>1, <3>1, <3>3, FigureValues, DayBounds DEF utcDay
    <3>5. from * TicksPerDay \in Int /\ utcDay(s.written) >= from  BY <1>1, <1>3, FigureValues
    <3>6. r.written <= from * TicksPerDay  BY <3>3, <3>4, <3>5
    <3> QED BY <1>1, <3>5, <3>6, ReachesBack
  <2> QED BY <1>2, <2>1, <2>2
<1> QED BY <1>2, <1>3, ReadDays

-----------------------------------------------------------------------------
(* The readings of a run                                                   *)

LEMMA ServedWords ==
  ASSUME FiguresInv, NEW r \in Stored
  PROVE  r.typed # "all" /\ r.lead # "all" /\ r.model # "all" /\ r.task # "all" /\ r.model # "unknown"
<1>1. r \in RunRows  BY StoredIsFinite
<1>2. PICK kt \in Kinds, kl \in Kinds, km \in Kinds, kk \in Kinds :
        r.typed = kt.typed /\ r.lead = kl.lead /\ r.model = km.model /\ r.task = kk.task
  BY <1>1 DEF RunRows
<1>3. \A k \in Kinds : "all" \notin {k.typed, k.lead, k.model, k.task} /\ k.model # "unknown"
  BY RunValues
<1> QED BY <1>2, <1>3

\* Charts and list read a boolean alike; where they do not, a text was served.
LEMMA VerdictsServed ==
  ASSUME NEW v
  PROVE  /\ servedBoolean(v) = FALSE <=> v = FALSE
         /\ servedBoolean(v) = TRUE <=> v = TRUE
         /\ verdict(v) = FALSE <=> v \in {FALSE, FalseText}
<1>1. Unserved # TRUE /\ Unserved # FALSE /\ TrueText # FALSE /\ TrueText # FalseText
      /\ FalseText # TRUE /\ FalseText # FALSE
  BY RunValues
<1>2. servedBoolean(v) = FALSE <=> v = FALSE
  <2>1. CASE v \in BOOLEAN  BY <2>1 DEF servedBoolean
  <2>2. CASE v \notin BOOLEAN
    <3>1. servedBoolean(v) = Unserved /\ v # FALSE  BY <2>2 DEF servedBoolean
    <3> QED BY <1>1, <3>1
  <2> QED BY <2>1, <2>2
<1>3. servedBoolean(v) = TRUE <=> v = TRUE
  <2>1. CASE v \in BOOLEAN  BY <2>1 DEF servedBoolean
  <2>2. CASE v \notin BOOLEAN
    <3>1. servedBoolean(v) = Unserved /\ v # TRUE  BY <2>2 DEF servedBoolean
    <3> QED BY <1>1, <3>1
  <2> QED BY <2>1, <2>2
<1>4. verdict(v) = FALSE <=> v \in {FALSE, FalseText}
  <2>1. CASE v \in {TRUE, TrueText}
    <3>1. verdict(v) = TRUE  BY <2>1 DEF verdict
    <3>2. v \notin {FALSE, FalseText}  BY <1>1, <2>1
    <3> QED BY <3>1, <3>2
  <2>2. CASE v \notin {TRUE, TrueText} /\ v \in {FALSE, FalseText}
    <3>1. verdict(v) = FALSE  BY <2>2 DEF verdict
    <3> QED BY <2>2, <3>1
  <2>3. CASE v \notin {TRUE, TrueText} /\ v \notin {FALSE, FalseText}
    <3>1. verdict(v) = Unserved  BY <2>3 DEF verdict
    <3> QED BY <1>1, <2>3, <3>1
  <2> QED BY <2>1, <2>2, <2>3
<1> QED BY <1>2, <1>3, <1>4

\* The charts fail every run that the list fails, with its cause, and beside
\* those only runs of which a verdict was served as a text.
LEMMA VerdictIsStatus ==
  ASSUME FiguresInv, NEW r \in Stored
  PROVE  /\ statusOf(r) = "failed" => runVerdict(r) = FALSE /\ causeOf(r) = failureCauseOf(r)
         /\ runVerdict(r) = FALSE => \/ statusOf(r) = "failed"
                                    \/ {r.gate, r.ok} \cap {TrueText, FalseText} # {}
         /\ InsightOf(r).status = runVerdict(r)
         /\ runVerdict(r) = FALSE => InsightOf(r).cause = failureCauseOf(r)
         /\ failureCauseOf(r) # "all" /\ failureCauseOf(r) # Unserved
<1>1. runVerdict(r) = FALSE <=> verdict(r.ok) = FALSE \/ verdict(r.gate) = FALSE
  <2>1. runVerdict(r) = IF verdict(r.ok) = FALSE THEN FALSE ELSE verdict(r.gate)  BY DEF runVerdict
  <2>2. CASE verdict(r.ok) = FALSE  BY <2>1, <2>2
  <2>3. CASE verdict(r.ok) # FALSE  BY <2>1, <2>3
  <2> QED BY <2>2, <2>3
<1>2. statusOf(r) = "failed" <=> servedBoolean(r.ok) = FALSE \/ servedBoolean(r.gate) = FALSE
  <2>1. CASE servedBoolean(r.ok) = FALSE \/ servedBoolean(r.gate) = FALSE  BY <2>1 DEF statusOf
  <2>2. CASE ~(servedBoolean(r.ok) = FALSE \/ servedBoolean(r.gate) = FALSE)
    <3>1. statusOf(r) \in {"Not recorded", "passed"}  BY <2>2 DEF statusOf
    <3>2. statusOf(r) # "failed"  BY <3>1
    <3> QED BY <2>2, <3>2
  <2> QED BY <2>1, <2>2
<1>3. statusOf(r) = "failed" => runVerdict(r) = FALSE
  <2>1. servedBoolean(r.ok) = FALSE => verdict(r.ok) = FALSE  BY VerdictsServed
  <2>2. servedBoolean(r.gate) = FALSE => verdict(r.gate) = FALSE  BY VerdictsServed
  <2> QED BY <1>1, <1>2, <2>1, <2>2
<1>4. runVerdict(r) = FALSE => statusOf(r) = "failed" \/ {r.gate, r.ok} \cap {TrueText, FalseText} # {}
  <2>1. verdict(r.ok) = FALSE => servedBoolean(r.ok) = FALSE \/ r.ok = FalseText  BY VerdictsServed
  <2>2. verdict(r.gate) = FALSE => servedBoolean(r.gate) = FALSE \/ r.gate = FalseText  BY VerdictsServed
  <2>3. r.ok = FalseText \/ r.gate = FalseText => {r.gate, r.ok} \cap {TrueText, FalseText} # {}
    OBVIOUS
  <2> QED BY <1>1, <1>2, <2>1, <2>2, <2>3
<1>5. statusOf(r) = "failed" => causeOf(r) = failureCauseOf(r)  BY DEF causeOf
<1>6. InsightOf(r).cause = IF runVerdict(r) = FALSE THEN failureCauseOf(r) ELSE Unserved
  BY DEF InsightOf
<1>7. InsightOf(r).status = runVerdict(r)  BY DEF InsightOf
<1>8. failureCauseOf(r) # "all" /\ failureCauseOf(r) # Unserved
  <2>1. r.typed # "all" /\ r.lead # "all"  BY ServedWords
  <2>2. Unserved # "Not recorded"  BY RunValues
  <2> QED BY <2>1, <2>2 DEF failureCauseOf, typedFailureCauseOf, recorded
<1> QED BY <1>3, <1>4, <1>5, <1>6, <1>7, <1>8

\* A run is counted once: no two rows of the store have one insight.
LEMMA InsightsCount ==
  ASSUME FiguresInv, NEW S \in SUBSET Stored
  PROVE  /\ IsFiniteSet(S) /\ Cardinality(S) \in Nat
         /\ IsFiniteSet({InsightOf(r) : r \in S})
         /\ Cardinality({InsightOf(r) : r \in S}) = Cardinality(S)
<1> DEFINE T == {InsightOf(r) : r \in S}
           f == [r \in S |-> InsightOf(r)]
<1>1. IsFiniteSet(S)  BY StoredIsFinite, FS_Subset
<1>2. f \in [S -> T] /\ \A r \in S : f[r] = InsightOf(r)  OBVIOUS
<1>3. \A t \in T : \E r \in S : t = InsightOf(r)  OBVIOUS
<1>4. \A r, s \in S : InsightOf(r) = InsightOf(s) => r = s
  <2>1. \A r \in S : InsightOf(r).id = r.id  BY InsightsOf
  <2> QED BY <2>1, StoredIsFinite
<1> HIDE DEF f, T
<1>5. f \in Bijection(S, T)
  BY <1>2, <1>3, <1>4 DEF Bijection, Injection, IsInjective, Surjection
<1>6. IsFiniteSet(T) /\ Cardinality(T) = Cardinality(S)
  BY <1>1, <1>5, FS_Bijection DEF ExistsBijection
<1> QED BY <1>1, <1>6, FS_CardinalityType DEF T

\* A view that sets its status and its cause lists the failed runs with that cause.
LEMMA CauseListed ==
  ASSUME FiguresInv, NEW cause, cause # "all"
  PROVE  /\ filtered(rows, [DEFAULT_RUNS_VIEW EXCEPT !.status = "failed"])
              = {r \in rows : statusOf(r) = "failed"}
         /\ filtered(rows, causeHref(cause))
              = {r \in rows : statusOf(r) = "failed" /\ failureCauseOf(r) = cause}
<1> DEFINE none == -1
           any == [DEFAULT_RUNS_VIEW EXCEPT !.status = "failed"]
           one == causeHref(cause)
<1>1. /\ any.status = "failed" /\ any.cause = "all" /\ any.model = "all" /\ any.task = "all" /\ any.day = none
      /\ one.status = "failed" /\ one.cause = cause /\ one.model = "all" /\ one.task = "all" /\ one.day = none
  BY DEF DEFAULT_RUNS_VIEW, causeHref
<1> HIDE DEF any, one
<1>2. filtered(rows, any) = {r \in rows : statusOf(r) = "failed"}
  <2>1. \A r : /\ any.status \in {"all", statusOf(r)} /\ any.cause \in {"all", causeOf(r)}
               /\ any.model \in {"all", modelOrUnknown(r.model)} /\ any.task \in {"all", recorded(r.task)}
               /\ any.day \in {none, utcDay(r.created)}
               <=> statusOf(r) = "failed"
    BY <1>1
  <2> QED BY <2>1 DEF filtered
<1>3. filtered(rows, one) = {r \in rows : statusOf(r) = "failed" /\ causeOf(r) = cause}
  <2>1. \A r : /\ one.status \in {"all", statusOf(r)} /\ one.cause \in {"all", causeOf(r)}
               /\ one.model \in {"all", modelOrUnknown(r.model)} /\ one.task \in {"all", recorded(r.task)}
               /\ one.day \in {none, utcDay(r.created)}
               <=> statusOf(r) = "failed" /\ causeOf(r) = cause
    BY <1>1
  <2> QED BY <2>1 DEF filtered
<1>4. \A r : statusOf(r) = "failed" => causeOf(r) = failureCauseOf(r)  BY DEF causeOf
<1> QED BY <1>2, <1>3, <1>4 DEF any, one

LEMMA CausesSame == FiguresInv => CausesAgree
<1> SUFFICES ASSUME FiguresInv, NEW from \in AllDays, NEW to \in AllDays
             PROVE  LET counted == causes(selectedRuns(toInsightRuns(rows), from..to))
                        written(S) == {r \in S : utcDay(r.written) \in from..to}
                        failed == filtered(rows, [DEFAULT_RUNS_VIEW EXCEPT !.status = "failed"])
                        asText(cause) == {r \in rows : {r.gate, r.ok} \cap {TrueText, FalseText} # {}
                                                       /\ failureCauseOf(r) = cause}
                    IN  /\ {causeOf(r) : r \in written(failed)} \subseteq DOMAIN counted
                        /\ \A cause \in DOMAIN counted :
                             LET links == filtered(rows, causeHref(cause))
                             IN  /\ counted[cause] >= Cardinality(written(links))
                                 /\ counted[cause] <= Cardinality(written(links \cup asText(cause)))
                                 /\ links = RecentRuns(rows, "failed", cause)
  BY DEF CausesAgree
<1> DEFINE window == from..to
           runs == selectedRuns(toInsightRuns(rows), window)
           counted == causes(runs)
           written(S) == {r \in S : utcDay(r.written) \in window}
           failed == filtered(rows, [DEFAULT_RUNS_VIEW EXCEPT !.status = "failed"])
           Text(r) == {r.gate, r.ok} \cap {TrueText, FalseText} # {}
           asText(cause) == {r \in rows : Text(r) /\ failureCauseOf(r) = cause}
           with(cause) == {r \in rows : statusOf(r) = "failed" /\ failureCauseOf(r) = cause}
           failing(cause) == {r \in written(rows) : runVerdict(r) = FALSE /\ failureCauseOf(r) = cause}
<1>1. rows \subseteq Stored  BY DEF rows
<1> HIDE DEF window, Text
<1>2. \A r \in rows : /\ statusOf(r) = "failed" => runVerdict(r) = FALSE /\ causeOf(r) = failureCauseOf(r)
                      /\ runVerdict(r) = FALSE => statusOf(r) = "failed" \/ Text(r)
                      /\ InsightOf(r).status = runVerdict(r)
                      /\ runVerdict(r) = FALSE => InsightOf(r).cause = failureCauseOf(r)
                      /\ failureCauseOf(r) # "all" /\ failureCauseOf(r) # Unserved
  BY <1>1, VerdictIsStatus DEF Text
<1>3. runs = {InsightOf(r) : r \in written(rows)}
  BY InsightsOf DEF selectedRuns
<1>4. DOMAIN counted = {run.cause : run \in {q \in runs : q.status = FALSE}}
      /\ \A cause \in DOMAIN counted :
           counted[cause] = Cardinality({run \in runs : run.status = FALSE /\ run.cause = cause})
  BY DEF causes, Count
<1> HIDE DEF runs, counted
<1>5. \A r \in written(rows) : r \in rows  OBVIOUS
<1>6. \A x : x \in DOMAIN counted <=> \E r \in written(rows) : runVerdict(r) = FALSE /\ x = failureCauseOf(r)
  BY <1>2, <1>3, <1>4, <1>5
<1>7. \A r \in written(failed) : causeOf(r) \in DOMAIN counted
  <2>1. failed = {r \in rows : statusOf(r) = "failed"}
    <3>1. "failed" # "all"  OBVIOUS
    <3> QED BY <3>1, CauseListed
  <2>2. \A r \in written(failed) : r \in written(rows) /\ statusOf(r) = "failed"  BY <2>1
  <2> HIDE DEF failed, written
  <2> QED BY <1>2, <1>5, <1>6, <2>2
<1>8. ASSUME NEW cause \in DOMAIN counted
      PROVE  /\ counted[cause] >= Cardinality(written(filtered(rows, causeHref(cause))))
             /\ counted[cause] <= Cardinality(written(filtered(rows, causeHref(cause)) \cup asText(cause)))
             /\ filtered(rows, causeHref(cause)) = RecentRuns(rows, "failed", cause)
  <2>1. cause # "all" /\ cause # Unserved  BY <1>2, <1>5, <1>6
  <2>2. filtered(rows, causeHref(cause)) = with(cause)  BY <2>1, CauseListed
  <2>3. RecentRuns(rows, "failed", cause) = with(cause)
    BY <2>1 DEF RecentRuns
  <2>4. {run \in runs : run.status = FALSE /\ run.cause = cause} = {InsightOf(r) : r \in failing(cause)}
    BY <1>2, <1>3, <1>5
  <2>5. failing(cause) \in SUBSET Stored  BY <1>1
  <2>6. written(with(cause)) \in SUBSET failing(cause)  BY <1>2
  <2>7. failing(cause) \in SUBSET written(with(cause) \cup asText(cause))  BY <1>2
  <2>8. written(with(cause) \cup asText(cause)) \in SUBSET Stored  BY <1>1
  <2> HIDE DEF with, failing, written, asText
  <2>9. counted[cause] = Cardinality(failing(cause))
    <3>1. Cardinality({InsightOf(r) : r \in failing(cause)}) = Cardinality(failing(cause))
      BY <2>5, InsightsCount
    <3> QED BY <1>4, <2>4, <3>1
  <2>10. Cardinality(written(with(cause))) <= Cardinality(failing(cause))
    <3>1. IsFiniteSet(failing(cause))  BY <2>5, InsightsCount
    <3> QED BY <2>6, <3>1, FS_Subset
  <2>11. Cardinality(failing(cause)) <= Cardinality(written(with(cause) \cup asText(cause)))
    <3>1. IsFiniteSet(written(with(cause) \cup asText(cause)))  BY <2>8, InsightsCount
    <3> QED BY <2>7, <3>1, FS_Subset
  <2>12. Cardinality(failing(cause)) \in Nat /\ Cardinality(written(with(cause))) \in Nat
    <3>1. IsFiniteSet(failing(cause))  BY <2>5, InsightsCount
    <3>2. IsFiniteSet(written(with(cause)))  BY <2>6, <3>1, FS_Subset
    <3> QED BY <3>1, <3>2, FS_CardinalityType
  <2>13. counted[cause] >= Cardinality(written(with(cause)))  BY <2>9, <2>10, <2>12
  <2>14. counted[cause] <= Cardinality(written(with(cause) \cup asText(cause)))  BY <2>9, <2>11
  <2> QED BY <2>2, <2>3, <2>13, <2>14
<1>9. {causeOf(r) : r \in written(failed)} \subseteq DOMAIN counted  BY <1>7
<1> QED BY <1>8, <1>9 DEF counted, runs, window, Text

LEMMA LinksList == FiguresInv => LinksListTheirRuns
<1> SUFFICES ASSUME FiguresInv, NEW r \in rows
             PROVE  LET model == nameOf(r, "model") task == nameOf(r, "task")
                        onDay(v) == [v EXCEPT !.day = utcDay(r.created)]
                    IN  /\ (task # "Not recorded" /\ model \notin {"Not recorded", "delegate-skill"}) =>
                             matrixCell(rows, model, task).runs = Cardinality(filtered(rows, runsFilter(model, task)))
                        /\ trendDay(rows, rows, utcDay(r.created)).runs
                             = Cardinality(filtered(rows, onDay(DEFAULT_RUNS_VIEW)))
  BY DEF LinksListTheirRuns
<1>1. rows \subseteq Stored  BY DEF rows
<1>2. \A s \in rows : s.model # "all" /\ s.task # "all" /\ s.model # "unknown"  BY <1>1, ServedWords
<1>3. ASSUME NEW model, NEW task, model = nameOf(r, "model"), task = nameOf(r, "task"),
             task # "Not recorded", model \notin {"Not recorded", "delegate-skill"}
      PROVE  matrixCell(rows, model, task).runs = Cardinality(filtered(rows, runsFilter(model, task)))
  <2> DEFINE none == -1
             w == runsFilter(model, task)
  <2>1. model = r.model /\ task = r.task /\ model # Unserved /\ task # Unserved
    BY <1>3 DEF nameOf, recorded
  <2>2. w.status = "all" /\ w.cause = "all" /\ w.model = model /\ w.task = task /\ w.day = none
    BY <1>3 DEF runsFilter, DEFAULT_RUNS_VIEW
  <2> HIDE DEF w
  <2>3. model # "all" /\ model # "unknown" /\ task # "all"  BY <1>2, <2>1
  <2>4. ASSUME NEW s \in rows
        PROVE  /\ modelOrUnknown(s.model) = model <=> s.model = model
               /\ recorded(s.task) = task <=> s.task = task
               /\ nameOf(s, "model") = model <=> s.model = model
               /\ nameOf(s, "task") = task <=> s.task = task
    BY <1>3, <2>1, <2>3 DEF modelOrUnknown, recorded, nameOf
  <2>5. filtered(rows, w) = {s \in rows : s.model = model /\ s.task = task}
    <3>1. \A s \in rows : /\ w.status \in {"all", statusOf(s)} /\ w.cause \in {"all", causeOf(s)}
                          /\ w.model \in {"all", modelOrUnknown(s.model)} /\ w.task \in {"all", recorded(s.task)}
                          /\ w.day \in {none, utcDay(s.created)}
                          <=> s.model = model /\ s.task = task
      BY <2>2, <2>3, <2>4
    <3> QED BY <3>1 DEF filtered
  <2>6. named(rows, "model", model) \cap named(rows, "task", task) = {s \in rows : s.model = model /\ s.task = task}
    BY <2>4 DEF named
  <2>7. matrixCell(rows, model, task).runs = Cardinality(named(rows, "model", model) \cap named(rows, "task", task))
    BY DEF matrixCell, totalsOf
  <2> QED BY <2>5, <2>6, <2>7 DEF w
<1>4. trendDay(rows, rows, utcDay(r.created)).runs
        = Cardinality(filtered(rows, [DEFAULT_RUNS_VIEW EXCEPT !.day = utcDay(r.created)]))
  <2> DEFINE d == utcDay(r.created)
             w == [DEFAULT_RUNS_VIEW EXCEPT !.day = d]
             none == -1
  <2>1. \A s \in rows : utcDay(s.created) \in Nat
    <3> SUFFICES ASSUME NEW s \in rows PROVE utcDay(s.created) \in Nat
      OBVIOUS
    <3>1. s \in RunRows  BY <1>1, StoredIsFinite
    <3>2. s.created \in Nat  BY <3>1 DEF RunRows
    <3>3. 0 \in Int  OBVIOUS
    <3> QED BY <3>2, <3>3, FigureValues, DayBounds DEF utcDay
  <2>2. w.status = "all" /\ w.cause = "all" /\ w.model = "all" /\ w.task = "all" /\ w.day = d
    BY DEF DEFAULT_RUNS_VIEW
  <2>3. d \in Nat /\ d # none  BY <2>1
  <2>4. ~(\A s \in rows : utcDay(s.created) > d)  BY <2>3
  <2>5. trendDay(rows, rows, d).runs = Cardinality({s \in rows : utcDay(s.created) = d})
    <3> HIDE DEF d
    <3> QED BY <2>4 DEF trendDay, totalsOf
  <2> HIDE DEF w, d
  <2>6. filtered(rows, w) = {s \in rows : utcDay(s.created) = d}
    <3>1. \A s \in rows : /\ w.status \in {"all", statusOf(s)} /\ w.cause \in {"all", causeOf(s)}
                          /\ w.model \in {"all", modelOrUnknown(s.model)} /\ w.task \in {"all", recorded(s.task)}
                          /\ w.day \in {none, utcDay(s.created)}
                          <=> utcDay(s.created) = d
      BY <2>2, <2>3
    <3> QED BY <3>1 DEF filtered
  <2> QED BY <2>5, <2>6 DEF w, d
<1> QED BY <1>3, <1>4

-----------------------------------------------------------------------------
(* The store's steps                                                       *)

LEMMA FiguresStart == FiguresInit => FiguresInv
<1> SUFFICES ASSUME FiguresInit PROVE FiguresInv
  OBVIOUS
<1>1. store \in Seq(RunRows) /\ Len(store) = 0 /\ DOMAIN store = {}  BY DEF FiguresInit
<1>2. clock \in 0..MaxClock /\ meter \in [AllDays -> 0..MaxRuns]  BY FigureValues DEF FiguresInit
<1>3. Len(store) <= MaxRuns  BY <1>1, FigureValues
<1> QED BY <1>1, <1>2, <1>3 DEF FiguresInv, FiguresTypeOK

\* One run of the store is of its place.
Placed(i, r, time) ==
  /\ r.id = i /\ r.created \in 1..r.written /\ r.written <= time
  /\ \E kind \in Kinds : r = Row(i, r.created, r.written, kind)

LEMMA FiguresKeep == FiguresInv /\ [FiguresNext]_figureVars => FiguresInv'
<1> SUFFICES ASSUME FiguresInv, [FiguresNext]_figureVars PROVE FiguresInv'
  OBVIOUS
<1>1. /\ clock \in 0..MaxClock /\ meter \in [AllDays -> 0..MaxRuns] /\ Len(store) <= MaxRuns
      /\ store \in Seq(RunRows) /\ DOMAIN store = 1..Len(store) /\ Len(store) \in Nat
      /\ \A i \in 1..Len(store) : Placed(i, store[i], clock)
  BY DEF FiguresInv, FiguresTypeOK, Placed
<1>2. clock \in Nat  BY <1>1, FigureValues
<1>3. ASSUME clock' \in 0..MaxClock, meter' \in [AllDays -> 0..MaxRuns], Len(store') <= MaxRuns,
             store' \in Seq(RunRows), \A i \in 1..Len(store') : Placed(i, store'[i], clock')
      PROVE  FiguresInv'
  <2>1. DOMAIN store' = 1..Len(store')  BY <1>3
  <2> QED BY <1>3, <2>1 DEF FiguresInv, FiguresTypeOK, Placed
<1>4. ASSUME NEW i \in 1..Len(store), NEW time \in Nat, time >= clock
      PROVE  Placed(i, store[i], time)
  <2>1. store[i] \in RunRows  BY <1>1
  <2>2. store[i].written \in Nat  BY <2>1 DEF RunRows
  <2> QED BY <1>1, <1>2, <1>4, <2>2 DEF Placed
<1>5. ASSUME NEW kind \in Kinds, Arrive(kind) PROVE FiguresInv'
  <2> DEFINE r == Row(Len(store) + 1, clock', clock', kind)
  <2>1. /\ clock' = clock + 1 /\ clock < MaxClock /\ Len(store) < MaxRuns
        /\ store' = Append(store, r) /\ meter' = meter
    BY <1>5 DEF Arrive, Tick
  <2>2. clock' \in Nat /\ clock' >= clock /\ clock' \in 1..clock' /\ clock' \in 0..MaxClock
    BY <1>2, <2>1, FigureValues
  <2>3. r \in RunRows /\ Placed(Len(store) + 1, r, clock')
    <3>1. Len(store) + 1 \in Nat  BY <1>1
    <3> QED BY <2>2, <3>1, RowTyped DEF Placed
  <2> HIDE DEF r
  <2>4. store' \in Seq(RunRows) /\ Len(store') = Len(store) + 1 /\ store'[Len(store) + 1] = r
        /\ \A i \in 1..Len(store) : store'[i] = store[i]
    BY <1>1, <2>1, <2>3
  <2>5. ASSUME NEW i \in 1..Len(store') PROVE Placed(i, store'[i], clock')
    <3>1. CASE i = Len(store) + 1  BY <2>3, <2>4, <3>1
    <3>2. CASE i # Len(store) + 1
      <4>1. i \in 1..Len(store)  BY <1>1, <2>4, <3>2
      <4> QED BY <1>4, <2>2, <2>4, <4>1
    <3> QED BY <3>1, <3>2
  <2>6. Len(store') <= MaxRuns  BY <1>1, <2>1, <2>4, FigureValues
  <2> QED BY <1>1, <1>3, <2>1, <2>2, <2>4, <2>5, <2>6
<1>6. ASSUME NEW i \in DOMAIN store, NEW kind \in Kinds, WriteAgain(i, kind) PROVE FiguresInv'
  <2> DEFINE r == Row(i, store[i].created, clock', kind)
  <2>1. /\ clock' = clock + 1 /\ clock < MaxClock
        /\ store' = [store EXCEPT ![i] = r] /\ meter' = meter
    BY <1>6 DEF WriteAgain, Tick
  <2>2. clock' \in Nat /\ clock' >= clock /\ clock' \in 0..MaxClock
    BY <1>2, <2>1, FigureValues
  <2>3. i \in 1..Len(store) /\ i \in Nat  BY <1>1
  <2>4. store[i].created \in 1..clock' /\ store[i].created \in Nat
    <3>1. store[i].created \in 1..store[i].written /\ store[i].written <= clock  BY <1>1, <2>3 DEF Placed
    <3>2. store[i] \in RunRows  BY <1>1, <2>3
    <3>3. store[i].written \in Nat  BY <3>2 DEF RunRows
    <3> QED BY <1>2, <2>1, <3>1, <3>3
  <2>5. r \in RunRows /\ Placed(i, r, clock')
    <3>1. r \in RunRows /\ r.id = i /\ r.created = store[i].created /\ r.written = clock'
      <4>1. /\ i \in Nat /\ store[i].created \in Nat /\ clock' \in Nat /\ kind \in Kinds
        BY <1>6, <2>2, <2>3, <2>4
      <4> QED BY ONLY <4>1, RowTyped
    <3>2. r = Row(i, r.created, r.written, kind)  BY <3>1
    <3> HIDE DEF r
    <3> QED BY <1>6, <2>2, <2>3, <2>4, <3>1, <3>2 DEF Placed
  <2> HIDE DEF r
  <2>6. store' \in Seq(RunRows) /\ Len(store') = Len(store) /\ store'[i] = r
        /\ \A j \in 1..Len(store) : j # i => store'[j] = store[j]
    BY <1>1, <2>1, <2>3, <2>5
  <2>7. \A j \in 1..Len(store') : Placed(j, store'[j], clock')
    BY <1>4, <2>2, <2>5, <2>6
  <2> QED BY <1>1, <1>3, <2>1, <2>2, <2>6, <2>7
<1>7. CASE Wait
  <2>1. clock' = clock + 1 /\ clock < MaxClock /\ store' = store /\ meter' = meter
    BY <1>7 DEF Wait, Tick
  <2>2. clock' \in Nat /\ clock' >= clock /\ clock' \in 0..MaxClock
    BY <1>2, <2>1, FigureValues
  <2> QED BY <1>1, <1>3, <1>4, <2>1, <2>2
<1>8. CASE Recount
  <2>1. ASSUME NEW day \in AllDays
        PROVE  Cardinality({r \in Stored : r.created \div TicksPerDay = day}) \in 0..MaxRuns
    <3> DEFINE R == {r \in Stored : r.created \div TicksPerDay = day}
    <3>1. R \in SUBSET Stored  OBVIOUS
    <3>2. IsFiniteSet(Stored) /\ Cardinality(Stored) \in 0..MaxRuns  BY StoredIsFinite
    <3>3. IsFiniteSet(R) /\ Cardinality(R) <= Cardinality(Stored)  BY <3>1, <3>2, FS_Subset
    <3>4. Cardinality(R) \in Nat  BY <3>3, FS_CardinalityType
    <3> HIDE DEF R
    <3>5. Cardinality(R) \in 0..MaxRuns  BY <3>2, <3>3, <3>4, FigureValues
    <3> QED BY <3>5 DEF R
  <2>2. /\ meter' = [day \in AllDays |-> Cardinality({r \in Stored : r.created \div TicksPerDay = day})]
        /\ clock' = clock /\ store' = store
    BY <1>8 DEF Recount
  <2>3. meter' \in [AllDays -> 0..MaxRuns]  BY <2>1, <2>2
  <2> QED BY <1>1, <1>3, <2>2, <2>3
<1>9. CASE UNCHANGED figureVars
  BY <1>1, <1>3, <1>9 DEF figureVars
<1> QED BY <1>5, <1>6, <1>7, <1>8, <1>9 DEF FiguresNext

-----------------------------------------------------------------------------
(* Counts that add up                                                      *)

\* The sizes of the classes of a finite set add up to its size.
LEMMA ClassesAddUp ==
  ASSUME NEW S, IsFiniteSet(S), NEW K, NEW g, \A s \in S : g[s] \in K,
         NEW f, DOMAIN f = K, \A k \in K : f[k] = Cardinality({s \in S : g[s] = k})
  PROVE  Total(f) = Cardinality(S)
<1> DEFINE class(k) == {s \in S : g[s] = k}
           b == [k \in K |-> CHOOSE h : h \in Bijection(1..f[k], class(k))]
           place == [s \in S |-> CHOOSE i \in 1..f[g[s]] : b[g[s]][i] = s]
           P == UNION {{x} \X (1..f[x]) : x \in K}
           h == [s \in S |-> <<g[s], place[s]>>]
<1>1. ASSUME NEW k \in K PROVE b[k] \in Bijection(1..f[k], class(k))
  <2>1. class(k) \in SUBSET S /\ f[k] = Cardinality(class(k))  OBVIOUS
  <2> HIDE DEF class
  <2>2. IsFiniteSet(class(k))  BY <2>1, FS_Subset
  <2>3. ExistsBijection(1..f[k], class(k))  BY <2>1, <2>2, FS_CardinalityType
  <2>4. \E q : q \in Bijection(1..f[k], class(k))  BY <2>3 DEF ExistsBijection
  <2> QED BY <2>4
<1> HIDE DEF b
<1>2. ASSUME NEW s \in S PROVE place[s] \in 1..f[g[s]] /\ b[g[s]][place[s]] = s
  <2>1. s \in class(g[s]) /\ g[s] \in K  OBVIOUS
  <2> HIDE DEF class
  <2>2. \E i \in 1..f[g[s]] : b[g[s]][i] = s  BY <1>1, <2>1 DEF Bijection, Surjection
  <2> QED BY <2>2
<1> HIDE DEF place
<1>3. \A s \in S : h[s] = <<g[s], place[s]>> /\ h[s] \in P
  <2> SUFFICES ASSUME NEW s \in S PROVE <<g[s], place[s]>> \in P
    OBVIOUS
  <2>1. g[s] \in K /\ place[s] \in 1..f[g[s]]  BY <1>2
  <2> QED BY <2>1
<1>4. \A s, t \in S : h[s] = h[t] => s = t
  <2> SUFFICES ASSUME NEW s \in S, NEW t \in S, h[s] = h[t] PROVE s = t
    OBVIOUS
  <2>1. g[s] = g[t] /\ place[s] = place[t]  BY <1>3
  <2> QED BY <1>2, <2>1
<1>5. ASSUME NEW p \in P PROVE \E s \in S : h[s] = p
  <2>1. PICK x \in K : p \in {x} \X (1..f[x])  OBVIOUS
  <2>7. PICK i \in 1..f[x] : p = <<x, i>>  BY <2>1
  <2>2. b[x] \in Bijection(1..f[x], class(x))  BY <1>1
  <2>3. b[x][i] \in class(x)  BY <2>2 DEF Bijection, Injection
  <2>4. PICK s \in S : s = b[x][i] /\ g[s] = x  BY <2>3
  <2>5. place[s] \in 1..f[x] /\ b[x][place[s]] = b[x][i]  BY <1>2, <2>4
  <2>6. place[s] = i  BY <2>2, <2>5 DEF Bijection, Injection, IsInjective
  <2> QED BY <1>3, <2>4, <2>6, <2>7
<1>6. h \in Bijection(S, P)
  <2>1. h \in [S -> P]
    <3>1. \A s \in S : <<g[s], place[s]>> \in P  BY <1>3
    <3> HIDE DEF P
    <3> QED BY <3>1
  <2> HIDE DEF h, P
  <2> QED BY <1>4, <1>5, <2>1 DEF Bijection, Injection, IsInjective, Surjection
<1>7. Cardinality(P) = Cardinality(S)
  <2> HIDE DEF P, h
  <2> QED BY <1>6, FS_Bijection DEF ExistsBijection
<1> QED BY <1>7 DEF Total

\* No run, no count.
LEMMA NothingAddsUp ==
  ASSUME NEW f, \A x \in DOMAIN f : f[x] = 0
  PROVE  Total(f) = 0
<1>1. \A x \in DOMAIN f : 1..f[x] = {}  OBVIOUS
<1>2. UNION {{x} \X (1..f[x]) : x \in DOMAIN f} = {}  BY <1>1
<1> QED BY <1>2, FS_EmptySet DEF Total

\* Every duration is in one bucket.
LEMMA BucketOf ==
  ASSUME NEW v \in Nat
  PROVE  \E i \in 1..Len(Edges) :
           \A j \in 1..Len(Edges) : v >= Edges[j] /\ (j < Len(Edges) => v < Edges[j + 1]) <=> j = i
<1> DEFINE n == Len(Edges)
           R == {k \in Nat : \E j \in 1..n : k = n - j /\ Edges[j] <= v}
<1>1. /\ n \in Nat \ {0} /\ DOMAIN Edges = 1..n /\ Edges[1] = 0
      /\ \A i \in 1..n : Edges[i] \in Nat
      /\ \A i, j \in 1..n : i < j => Edges[i] < Edges[j]
  <2>4. Edges \in Seq(Nat) /\ Edges # <<>> /\ Edges[1] = 0  BY RunValues
  <2>1. Edges \in Seq(Nat) /\ Edges # <<>> /\ Edges[1] = 0 /\ DOMAIN Edges = 1..Len(Edges)  BY <2>4
  <2>2. n \in Nat /\ n # 0  BY <2>1
  <2>3. \A i, j \in DOMAIN Edges : i < j => Edges[i] < Edges[j]  BY RunValues
  <2>5. \A i \in 1..n : Edges[i] \in Nat  BY <2>1
  <2>6. 1..n = DOMAIN Edges  BY <2>1
  <2> HIDE DEF n
  <2> QED BY <2>1, <2>2, <2>3, <2>5, <2>6
<1> HIDE DEF n
<1>2. n - 1 \in R  BY <1>1
<1>3. PICK k \in R : \A m \in R : ~(m < k)
  <2>1. R \subseteq Nat /\ R # {}  BY <1>2
  <2> HIDE DEF R
  <2>2. PICK k \in R : \A m \in R : ~(<<m, k>> \in OpToRel(<, Nat))
    BY <2>1, WFMin, NatLessThanWellFounded
  <2> QED BY <2>1, <2>2 DEF OpToRel
<1>4. PICK i \in 1..n : k = n - i /\ Edges[i] <= v  BY <1>3
<1>5. ASSUME NEW j \in 1..n, j > i PROVE v < Edges[j]
  <2> SUFFICES ASSUME Edges[j] <= v PROVE FALSE
    BY <1>1
  <2>1. n - j \in R  BY <1>1, <1>5
  <2>2. n - j < k  BY <1>1, <1>4, <1>5
  <2> QED BY <1>3, <2>1, <2>2
<1>6. ASSUME NEW j \in 1..n PROVE v >= Edges[j] /\ (j < n => v < Edges[j + 1]) <=> j = i
  <2>1. CASE j = i
    <3>1. j < n => j + 1 \in 1..n /\ j + 1 > i  BY <1>1, <2>1
    <3> QED BY <1>1, <1>4, <1>5, <2>1, <3>1
  <2>2. CASE j < i
    <3>1. j < n /\ j + 1 \in 1..n /\ Edges[j + 1] <= Edges[i]
      <4>1. j < n /\ j + 1 \in 1..n /\ (j + 1 < i \/ j + 1 = i)  BY <1>1, <2>2
      <4> QED BY <1>1, <4>1
    <3> QED BY <1>1, <1>4, <2>2, <3>1
  <2>3. CASE j > i
    <3>1. v < Edges[j]  BY <1>5, <2>3
    <3> QED BY <1>1, <2>3, <3>1
  <2> QED BY <1>1, <2>1, <2>2, <2>3
<1> QED BY <1>6 DEF n

\* What is counted of the runs that were read.
LEMMA CountedRuns ==
  ASSUME FiguresInv
  PROVE  /\ IsFiniteSet(rows) /\ rows \subseteq RunRows
         /\ IsFiniteSet(toInsightRuns(rows))
         /\ \A run \in toInsightRuns(rows) : run.at \in Nat /\ run.latency \in Int
<1>1. rows \subseteq Stored  BY DEF rows
<1>2. IsFiniteSet(rows) /\ rows \subseteq RunRows  BY <1>1, StoredIsFinite, FS_Subset
<1>3. IsFiniteSet(toInsightRuns(rows))  BY <1>1, InsightsCount, InsightsOf
<1>4. ASSUME NEW run \in toInsightRuns(rows) PROVE run.at \in Nat /\ run.latency \in Int
  <2>1. PICK r \in rows : run = InsightOf(r)  BY InsightsOf
  <2>2. r \in RunRows  BY <1>2
  <2>3. r.written \in Nat /\ r.latency \in Int  BY <2>2 DEF RunRows
  <2> QED BY <2>1, <2>3 DEF InsightOf
<1> QED BY <1>2, <1>3, <1>4

LEMMA ChartsCount == FiguresInv => ChartsCountEveryRun
<1> SUFFICES ASSUME FiguresInv PROVE ChartsCountEveryRun
  OBVIOUS
<1> DEFINE runs == windowRuns(toInsightRuns(rows), Today, Days)
           W == windowDays(Today, Days)
           daily == dailySeries(runs, Today, Days)
           hours == hourGrid(runs, Today, Days)
           on(day) == {run \in runs : run.day = day}
<1>1. /\ IsFiniteSet(runs)
      /\ \A run \in runs : run.day \in W /\ run.at \in Nat /\ run.latency \in Int
  <2>1. runs = {run \in toInsightRuns(rows) : run.day \in W}  BY DEF windowRuns, selectedRuns
  <2> HIDE DEF runs
  <2>2. runs \in SUBSET toInsightRuns(rows)  BY <2>1
  <2>3. IsFiniteSet(runs)  BY <2>2, CountedRuns, FS_Subset
  <2> QED BY <2>1, <2>3, CountedRuns
<1>2. /\ DOMAIN daily = W /\ \A day \in W : daily[day].runs = Cardinality(on(day))
      /\ \A day \in W : /\ DOMAIN hours[day] = 0..TicksPerDay - 1
                         /\ \A hour \in 0..TicksPerDay - 1 : hours[day][hour]
                              = Cardinality({run \in runs : run.day = day /\ run.at % TicksPerDay = hour})
  BY DEF dailySeries, hourGrid, summary, Count
<1> HIDE DEF runs, W, daily, hours
<1>3. Total([day \in DOMAIN daily |-> daily[day].runs]) = Cardinality(runs)
  <2> DEFINE g == [run \in runs |-> run.day]
             f == [day \in DOMAIN daily |-> daily[day].runs]
  <2>1. \A run \in runs : g[run] \in W  BY <1>1
  <2>2. DOMAIN f = W /\ \A day \in W : f[day] = Cardinality({run \in runs : g[run] = day})
    <3>1. \A day \in W : on(day) = {run \in runs : g[run] = day}  OBVIOUS
    <3> HIDE DEF g, on
    <3> QED BY <1>2, <3>1
  <2> HIDE DEF f, g
  <2>3. Total(f) = Cardinality(runs)  BY <1>1, <2>1, <2>2, ClassesAddUp
  <2> QED BY <2>3 DEF f
<1>4. ASSUME NEW day \in W PROVE Total(hours[day]) = daily[day].runs
  <2> DEFINE S == on(day)
             H == 0..TicksPerDay - 1
             g == [run \in S |-> run.at % TicksPerDay]
             f == hours[day]
  <2>1. IsFiniteSet(S)
    <3>1. S \in SUBSET runs  OBVIOUS
    <3> QED BY <1>1, <3>1, FS_Subset
  <2>2. \A run \in S : g[run] \in H
    <3> SUFFICES ASSUME NEW run \in S PROVE run.at % TicksPerDay \in H
      OBVIOUS
    <3>1. run.at \in Nat  BY <1>1
    <3> QED BY <3>1, FigureValues
  <2>3. \A hour \in H : f[hour] = Cardinality({run \in S : g[run] = hour})
    <3>1. \A hour : {run \in S : g[run] = hour} = {run \in runs : run.day = day /\ run.at % TicksPerDay = hour}
      OBVIOUS
    <3> HIDE DEF S, g
    <3> QED BY <1>2, <3>1
  <2>4. DOMAIN f = H  BY <1>2
  <2> HIDE DEF S, f, g, H
  <2>5. Total(f) = Cardinality(S)  BY <2>1, <2>2, <2>3, <2>4, ClassesAddUp
  <2> QED BY <1>2, <2>5 DEF S, f
<1>5. Total(durationBuckets(runs)) + Count(runs, LAMBDA run : run.latency < 0) = Cardinality(runs)
  <2> DEFINE n == Len(Edges)
             In(v, i) == v >= Edges[i] /\ (i < n => v < Edges[i + 1])
             S == {run \in runs : run.latency >= 0}
             rest == {run \in runs : run.latency < 0}
             g == [run \in S |-> CHOOSE i \in 1..n : In(run.latency, i)]
             f == durationBuckets(runs)
  <2>1. IsFiniteSet(S)
    <3>1. S \in SUBSET runs  OBVIOUS
    <3> QED BY <1>1, <3>1, FS_Subset
  <2>2. ASSUME NEW run \in S
        PROVE  g[run] \in 1..n /\ \A i \in 1..n : In(run.latency, i) <=> g[run] = i
    <3>1. run.latency \in Nat  BY <1>1
    <3>2. PICK i \in 1..n : \A j \in 1..n : In(run.latency, j) <=> j = i  BY <3>1, BucketOf
    <3>3. g[run] = CHOOSE j \in 1..n : In(run.latency, j)  OBVIOUS
    <3> HIDE DEF In, g, n
    <3>4. g[run] = i  BY <3>2, <3>3
    <3> QED BY <3>2, <3>4
  <2>3. ASSUME NEW i \in 1..n PROVE f[i] = Cardinality({run \in S : g[run] = i})
    <3>1. f[i] = Cardinality({run \in runs : In(run.latency, i)})  BY DEF durationBuckets, Count
    <3>2. \A run \in runs : In(run.latency, i) => run.latency >= 0
      <4>1. Edges[i] \in Nat
        <5>1. Edges \in Seq(Nat)  BY RunValues
        <5> QED BY <5>1
      <4>2. \A run \in runs : run.latency \in Int  BY <1>1
      <4> QED BY <4>1, <4>2
    <3> HIDE DEF In, g
    <3>3. {run \in runs : In(run.latency, i)} = {run \in S : g[run] = i}  BY <2>2, <3>2
    <3> QED BY <3>1, <3>3
  <2>4. DOMAIN f = 1..n  BY DEF durationBuckets
  <2>5. Count(runs, LAMBDA run : run.latency < 0) = Cardinality(rest)  BY DEF Count
  <2>6. S \cup rest = runs /\ S \cap rest = {}  BY <1>1
  <2>7. IsFiniteSet(rest)
    <3>1. rest \in SUBSET runs  OBVIOUS
    <3> QED BY <1>1, <3>1, FS_Subset
  <2> DEFINE B == 1..n
  <2> HIDE DEF S, f, g, rest, B
  <2>8. Total(f) = Cardinality(S)
    <3>1. \A run \in S : g[run] \in B  BY <2>2 DEF B
    <3>2. DOMAIN f = B /\ \A i \in B : f[i] = Cardinality({run \in S : g[run] = i})  BY <2>3, <2>4 DEF B
    <3> HIDE DEF n
    <3> QED BY <2>1, <3>1, <3>2, ClassesAddUp
  <2>9. Cardinality(runs) = Cardinality(S) + Cardinality(rest) - 0
    BY <2>1, <2>6, <2>7, FS_Union, FS_EmptySet
  <2>10. Cardinality(S) \in Nat /\ Cardinality(rest) \in Nat  BY <2>1, <2>7, FS_CardinalityType
  <2>11. Total(f) + Cardinality(rest) = Cardinality(runs)  BY <2>8, <2>9, <2>10
  <2> QED BY <2>5, <2>11 DEF f
<1>6. ASSUME NEW field \in {"model", "task"}, NEW groups, groups = countBy(runs, field)
      PROVE  Total([key \in DOMAIN groups |-> groups[key].runs]) = Cardinality(runs)
  <2> DEFINE K == {recorded(run[field]) : run \in runs}
             g == [run \in runs |-> recorded(run[field])]
             f == [key \in DOMAIN groups |-> groups[key].runs]
  <2>1. DOMAIN groups = K /\ \A key \in K : groups[key].runs
            = Cardinality({run \in runs : recorded(run[field]) = key})
    BY <1>6 DEF countBy, summary
  <2>2. \A run \in runs : g[run] \in K  OBVIOUS
  <2>3. \A key : {run \in runs : recorded(run[field]) = key} = {run \in runs : g[run] = key}  OBVIOUS
  <2>4. DOMAIN f = K /\ \A key \in K : f[key] = groups[key].runs  BY <2>1
  <2> HIDE DEF K, g, f
  <2>5. DOMAIN f = K /\ \A key \in K : f[key] = Cardinality({run \in runs : g[run] = key})
    BY <2>1, <2>3, <2>4
  <2>6. IsFiniteSet(runs)  BY <1>1
  <2>7. Total(f) = Cardinality(runs)  BY <2>2, <2>5, <2>6, ClassesAddUp
  <2> QED BY <2>7 DEF f
<1>7. DOMAIN daily = W  BY <1>2
<1> QED BY <1>3, <1>4, <1>5, <1>6, <1>7 DEF ChartsCountEveryRun, runs, daily, hours

\* A set of runs is counted by name, and the rest beside the names.
LEMMA SplitByName ==
  ASSUME NEW Q, IsFiniteSet(Q), NEW by, NEW top, NEW f, DOMAIN f = top,
         \A name \in top : f[name] = Cardinality({r \in Q : nameOf(r, by) = name})
  PROVE  Cardinality(Q) = Total(f) + Cardinality({r \in Q : nameOf(r, by) \notin top})
<1> DEFINE S == {r \in Q : nameOf(r, by) \in top}
           rest == {r \in Q : nameOf(r, by) \notin top}
           g == [r \in S |-> nameOf(r, by)]
<1>1. IsFiniteSet(S) /\ IsFiniteSet(rest)
  <2>1. S \in SUBSET Q /\ rest \in SUBSET Q  OBVIOUS
  <2> HIDE DEF S, rest
  <2> QED BY <2>1, FS_Subset
<1>2. \A r \in S : g[r] \in top  OBVIOUS
<1>3. \A name \in top : f[name] = Cardinality({r \in S : g[r] = name})
  <2>1. \A name \in top : {r \in Q : nameOf(r, by) = name} = {r \in S : g[r] = name}  OBVIOUS
  <2> HIDE DEF S, g
  <2> QED BY <2>1
<1>4. S \cup rest = Q /\ S \cap rest = {}  OBVIOUS
<1> HIDE DEF S, rest, g
<1>5. Total(f) = Cardinality(S)  BY <1>1, <1>2, <1>3, ClassesAddUp
<1>6. Cardinality(Q) = Cardinality(S) + Cardinality(rest) - 0  BY <1>1, <1>4, FS_Union, FS_EmptySet
<1>7. Cardinality(S) \in Nat /\ Cardinality(rest) \in Nat  BY <1>1, FS_CardinalityType
<1>8. Cardinality(Q) = Total(f) + Cardinality(rest)  BY <1>5, <1>6, <1>7
<1> QED BY <1>8 DEF rest

LEMMA SeriesCount == FiguresInv => SeriesAddUp
<1> SUFFICES ASSUME FiguresInv, NEW by \in {"model", "task"}, NEW day \in AllDays,
                    NEW field \in {"runs", "passed", "verdicts"}
             PROVE  trendDay(rows, rows, day)[field]
                      = Total([name \in DOMAIN qualityTrend(rows, by, day) |-> qualityTrend(rows, by, day)[name][field]])
                        + otherTrend(rows, by, day)[field]
  BY DEF SeriesAddUp
<1> DEFINE trend == qualityTrend(rows, by, day)
           all == trendDay(rows, rows, day)
           other == otherTrend(rows, by, day)
           top == topNames(rows, by)
           f == [name \in DOMAIN trend |-> trend[name][field]]
           Uncovered == \A r \in rows : utcDay(r.created) > day
           of(members) == {r \in members : utcDay(r.created) = day}
           counted(members) == CASE field = "runs" -> of(members)
                                 [] field = "passed" -> {r \in of(members) : verdict(r.gate) = TRUE}
                                 [] field = "verdicts" -> {r \in of(members) : verdict(r.gate) # Unserved}
<1>1. DOMAIN trend = top /\ DOMAIN f = top /\ \A name \in top : f[name] = trendDay(rows, named(rows, by, name), day)[field]
  BY DEF qualityTrend
<1>2. other = trendDay(rows, OtherSeries(rows, by), day)  BY DEF otherTrend
<1>3. CASE Uncovered
  <2>1. \A members : trendDay(rows, members, day)[field] = 0  BY <1>3 DEF trendDay
  <2> HIDE DEF f, top, other, Uncovered
  <2>2. Total(f) = 0
    <3>1. \A name \in DOMAIN f : f[name] = 0  BY <1>1, <2>1
    <3> QED BY <3>1, NothingAddsUp
  <2>3. other[field] = 0 /\ all[field] = 0  BY <1>2, <2>1
  <2>4. all[field] = Total(f) + other[field]  BY <2>2, <2>3
  <2> QED BY <2>4 DEF f, other
<1>4. CASE ~Uncovered
  <2>1. ASSUME NEW members PROVE trendDay(rows, members, day)[field] = Cardinality(counted(members))
    <3>1. CASE field = "runs"  BY <1>4, <3>1 DEF trendDay, totalsOf, Count
    <3>2. CASE field = "passed"  BY <1>4, <3>2 DEF trendDay, totalsOf, Count
    <3>3. CASE field = "verdicts"  BY <1>4, <3>3 DEF trendDay, totalsOf, Count
    <3> QED BY <3>1, <3>2, <3>3
  <2> DEFINE Q == counted(rows)
  <2>2. Q \in SUBSET rows  OBVIOUS
  <2>3. /\ \A name : counted(named(rows, by, name)) = {r \in Q : nameOf(r, by) = name}
        /\ counted(OtherSeries(rows, by)) = {r \in Q : nameOf(r, by) \notin top}
    <3> HIDE DEF top
    <3>1. CASE field = "runs"  BY <3>1 DEF named, OtherSeries, top
    <3>2. CASE field = "passed"  BY <3>2 DEF named, OtherSeries, top
    <3>3. CASE field = "verdicts"  BY <3>3 DEF named, OtherSeries, top
    <3> QED BY <3>1, <3>2, <3>3
  <2> HIDE DEF counted, Q, f, top, other, all
  <2>4. IsFiniteSet(Q)  BY <2>2, CountedRuns, FS_Subset
  <2>5. \A name \in top : f[name] = Cardinality({r \in Q : nameOf(r, by) = name})
    BY <1>1, <2>1, <2>3
  <2>6. Cardinality(Q) = Total(f) + Cardinality({r \in Q : nameOf(r, by) \notin top})
    BY <1>1, <2>4, <2>5, SplitByName
  <2>7. all[field] = Cardinality(Q)  BY <2>1 DEF Q, all
  <2>8. other[field] = Cardinality({r \in Q : nameOf(r, by) \notin top})  BY <1>2, <2>1, <2>3
  <2>9. all[field] = Total(f) + other[field]  BY <2>6, <2>7, <2>8
  <2> QED BY <2>9 DEF f, all, other
<1> QED BY <1>3, <1>4

LEMMA FilledDays == FiguresInv => FilledDaysAddUp
<1> SUFFICES ASSUME FiguresInv, NEW day \in AllDays
             PROVE  LET of == meteringFilledDays(rows)[day] IN
                    /\ of.passed >= 0 /\ of.failed >= 0 /\ of.unrecorded >= 0
                    /\ of.passed + of.failed + of.unrecorded = of.runs
  BY DEF FilledDaysAddUp
<1> DEFINE runs == {run \in toInsightRuns(rows) : run.day = day}
           read == summary(runs)
           n == meter[day]
           p == read.passed
           q == read.failed
           of == meteringFilledDays(rows)[day]
<1>1. n \in Nat
  <2>1. meter[day] \in 0..MaxRuns  BY DEF FiguresInv, FiguresTypeOK
  <2> QED BY <2>1, FigureValues
<1>2. p \in Nat /\ q \in Nat
  <2>1. runs \in SUBSET toInsightRuns(rows)  OBVIOUS
  <2> HIDE DEF runs
  <2>2. IsFiniteSet(runs)  BY <2>1, CountedRuns, FS_Subset
  <2>3. \A R \in SUBSET runs : Cardinality(R) \in Nat  BY <2>2, FS_Subset, FS_CardinalityType
  <2>4. /\ p = Cardinality({run \in runs : run.status = TRUE})
        /\ q = Cardinality({run \in runs : run.status = FALSE})
    BY DEF summary, Count
  <2>5. {run \in runs : run.status = TRUE} \in SUBSET runs /\ {run \in runs : run.status = FALSE} \in SUBSET runs
    OBVIOUS
  <2> QED BY <2>3, <2>4, <2>5
<1>3. of = [runs |-> n, passed |-> Least(p, n), failed |-> Least(q, n - Least(p, n)),
            unrecorded |-> n - Least(p, n) - Least(q, n - Least(p, n))]
  BY DEF meteringFilledDays, split
<1> HIDE DEF n, p, q, of
<1>4. Least(p, n) \in Nat /\ Least(p, n) <= n  BY <1>1, <1>2 DEF Least
<1>5. Least(q, n - Least(p, n)) \in Nat /\ Least(q, n - Least(p, n)) <= n - Least(p, n)
  <2>1. n - Least(p, n) \in Nat  BY <1>1, <1>4
  <2> QED BY <1>2, <2>1 DEF Least
<1>6. /\ of.passed >= 0 /\ of.failed >= 0 /\ of.unrecorded >= 0
      /\ of.passed + of.failed + of.unrecorded = of.runs
  BY <1>1, <1>3, <1>4, <1>5
<1> QED BY <1>6 DEF of

\* The recorded durations, in order, one for each run that has one.
LEMMA LatenciesInOrder ==
  ASSUME FiguresInv
  PROVE  LET n == Cardinality({run \in rows : run.latency >= 0})
             values == latencies(rows)
         IN  /\ n \in Nat /\ values \in [1..n -> Nat]
             /\ \A i, j \in 1..n : i <= j => values[i] <= values[j]
<1> DEFINE known == {run \in rows : run.latency >= 0}
           n == Cardinality(known)
           values == latencies(rows)
           below(v) == {run \in known : run.latency < v}
           upTo(v) == {run \in known : run.latency <= v}
           R == {p \in known \X known : \/ p[1].latency < p[2].latency
                                       \/ (p[1].latency = p[2].latency /\ p[1].id < p[2].id)}
           f == Rank(R, known)
           B(r) == Before(R, known, r)
<1>1. /\ IsFiniteSet(known) /\ \A r \in known : r.latency \in Nat /\ r.id \in Nat
      /\ \A r, s \in known : r.id = s.id => r = s
  <2>1. known \in SUBSET rows  OBVIOUS
  <2>2. rows \subseteq Stored  BY DEF rows
  <2>3. ASSUME NEW r \in rows PROVE r.latency \in Int /\ r.id \in Nat
    <3>1. r \in RunRows  BY CountedRuns
    <3> QED BY <3>1 DEF RunRows
  <2>4. \A r \in known : r.latency \in Nat /\ r.id \in Nat  BY <2>3
  <2> HIDE DEF known
  <2> QED BY <2>1, <2>2, <2>4, CountedRuns, FS_Subset, StoredIsFinite
<1>2. n \in Nat  BY <1>1, FS_CardinalityType
<1> HIDE DEF known
<1>3. \A a, b \in known : <<a, b>> \in R <=> a.latency < b.latency \/ (a.latency = b.latency /\ a.id < b.id)
  OBVIOUS
<1> HIDE DEF R
<1>4. Orders(R, known)  BY <1>1, <1>3 DEF Orders
<1>5. f \in Bijection(known, 1..n)  BY <1>1, <1>4, RanksNumber
<1>6. \A v : /\ IsFiniteSet(below(v)) /\ IsFiniteSet(upTo(v))
             /\ Cardinality(below(v)) \in Nat /\ Cardinality(upTo(v)) \in Nat
  <2> SUFFICES ASSUME NEW v
               PROVE  /\ IsFiniteSet(below(v)) /\ IsFiniteSet(upTo(v))
                      /\ Cardinality(below(v)) \in Nat /\ Cardinality(upTo(v)) \in Nat
    OBVIOUS
  <2>1. below(v) \in SUBSET known /\ upTo(v) \in SUBSET known  OBVIOUS
  <2> HIDE DEF below, upTo
  <2> QED BY <1>1, <2>1, FS_Subset, FS_CardinalityType
<1>7. ASSUME NEW i \in 1..n
      PROVE  /\ latencyAt(known, i) \in Nat
             /\ Cardinality(below(latencyAt(known, i))) < i
             /\ i <= Cardinality(upTo(latencyAt(known, i)))
  <2>1. PICK r \in known : f[r] = i  BY <1>5 DEF Bijection, Surjection
  <2> DEFINE v == r.latency
  <2>2. f[r] = Cardinality(B(r)) + 1  BY DEF Rank
  <2>3. B(r) \in SUBSET known /\ r \notin B(r)  BY <1>1, <1>3 DEF Before
  <2>4. IsFiniteSet(B(r)) /\ Cardinality(B(r)) \in Nat  BY <1>1, <2>3, FS_Subset, FS_CardinalityType
  <2>5. below(v) \in SUBSET B(r)  BY <1>3 DEF Before
  <2>6. B(r) \cup {r} \in SUBSET upTo(v)  BY <1>1, <1>3 DEF Before
  <2>7. Cardinality(B(r) \cup {r}) = Cardinality(B(r)) + 1  BY <2>3, <2>4, FS_AddElement
  <2> HIDE DEF f, B, below, upTo
  <2>8. Cardinality(below(v)) <= Cardinality(B(r))  BY <2>4, <2>5, FS_Subset
  <2>9. Cardinality(B(r) \cup {r}) <= Cardinality(upTo(v))  BY <1>6, <2>6, FS_Subset
  <2>10. Cardinality(below(v)) < i /\ i <= Cardinality(upTo(v))
    BY <1>6, <2>1, <2>2, <2>4, <2>7, <2>8, <2>9
  <2>11. v \in {run.latency : run \in known}  OBVIOUS
  <2>12. \E value \in {run.latency : run \in known} :
           Cardinality(below(value)) < i /\ i <= Cardinality(upTo(value))
    BY <2>10, <2>11
  <2>13. /\ latencyAt(known, i) \in {run.latency : run \in known}
         /\ Cardinality(below(latencyAt(known, i))) < i /\ i <= Cardinality(upTo(latencyAt(known, i)))
    BY <2>12 DEF latencyAt, below, upTo
  <2> QED BY <1>1, <2>13
<1>8. values = [i \in 1..n |-> latencyAt(known, i)]  BY DEF latencies, known
<1> HIDE DEF values, n
<1>9. values \in [1..n -> Nat]  BY <1>7, <1>8
<1>10. ASSUME NEW i \in 1..n, NEW j \in 1..n, i <= j PROVE values[i] <= values[j]
  <2> DEFINE v == values[i]
             w == values[j]
  <2>1. v \in Nat /\ w \in Nat  BY <1>9
  <2>2. Cardinality(below(v)) < i /\ j <= Cardinality(upTo(w))  BY <1>7, <1>8
  <2> HIDE DEF v, w
  <2> SUFFICES ASSUME w < v PROVE FALSE
    BY <2>1 DEF v, w
  <2>3. upTo(w) \in SUBSET below(v)  BY <1>1, <2>1
  <2> HIDE DEF upTo, below
  <2>4. Cardinality(upTo(w)) <= Cardinality(below(v))  BY <1>6, <2>3, FS_Subset
  <2> QED BY <1>2, <1>6, <1>10, <2>2, <2>4
<1> QED BY <1>2, <1>9, <1>10 DEF values, n, known

\* Places that hold, or that are among, those from one to another.
LEMMA PlacesBetween ==
  ASSUME NEW n \in Nat, NEW T \in SUBSET (1..n), NEW from \in 1..n, NEW to \in 0..n, from <= to + 1
  PROVE  /\ Cardinality(T) \in Nat
         /\ from..to \subseteq T => Cardinality(T) >= to - from + 1
         /\ T \subseteq from..to => Cardinality(T) <= to - from + 1
<1>1. IsFiniteSet(T) /\ Cardinality(T) \in Nat
  <2>1. IsFiniteSet(1..n)  BY FS_Interval
  <2> QED BY <2>1, FS_Subset, FS_CardinalityType
<1>2. IsFiniteSet(from..to) /\ Cardinality(from..to) = to - from + 1
  <2>1. IsFiniteSet(from..to) /\ Cardinality(from..to) = IF from > to THEN 0 ELSE to - from + 1
    BY FS_Interval
  <2> QED BY <2>1
<1>3. from..to \subseteq T => Cardinality(from..to) <= Cardinality(T)  BY <1>1, FS_Subset
<1>4. T \subseteq from..to => Cardinality(T) <= Cardinality(from..to)  BY <1>2, FS_Subset
<1> QED BY <1>1, <1>2, <1>3, <1>4

\* The nearest rank of a percentage of n places is one of them.
LEMMA RankOf ==
  ASSUME NEW n \in Nat \ {0}, NEW p \in 1..100, NEW m, m = p * n, NEW k, k = (m + 99) \div 100
  PROVE  k \in 1..n /\ 100 * k >= m /\ 100 * (k - 1) < m
<1>1. m \in Nat /\ m >= n /\ m <= 100 * n  OBVIOUS
<1>2. k \in Nat /\ 100 * k >= m /\ 100 * (k - 1) < m  BY <1>1
<1> QED BY <1>1, <1>2

LEMMA NearestRank == FiguresInv => PercentileIsNearestRank
<1> SUFFICES ASSUME FiguresInv, latencies(rows) # <<>> PROVE PercentileIsNearestRank
  BY DEF PercentileIsNearestRank
<1> DEFINE n == Cardinality({run \in rows : run.latency >= 0})
           values == latencies(rows)
           upTo(v) == Cardinality({i \in DOMAIN values : values[i] <= v})
           below(v) == Cardinality({i \in DOMAIN values : values[i] < v})
           m == medianTwice(values)
<1>1. /\ n \in Nat /\ values \in [1..n -> Nat]
      /\ \A i, j \in 1..n : i <= j => values[i] <= values[j]
  BY LatenciesInOrder
<1>2. values # <<>>  OBVIOUS
<1> HIDE DEF n, values
<1>3. values \in Seq(Nat) /\ Len(values) = n /\ DOMAIN values = 1..n /\ n # 0  BY <1>1, <1>2
<1>8. \A T \in SUBSET (1..n), from \in 1..n, to \in 0..n :
        from <= to + 1 =>
          /\ Cardinality(T) \in Nat
          /\ from..to \subseteq T => Cardinality(T) >= to - from + 1
          /\ T \subseteq from..to => Cardinality(T) <= to - from + 1
  <2> SUFFICES ASSUME NEW T \in SUBSET (1..n), NEW from \in 1..n, NEW to \in 0..n, from <= to + 1
               PROVE  /\ Cardinality(T) \in Nat
                      /\ from..to \subseteq T => Cardinality(T) >= to - from + 1
                      /\ T \subseteq from..to => Cardinality(T) <= to - from + 1
    OBVIOUS
  <2>1. n \in Nat  BY <1>1
  <2> QED BY <2>1, PlacesBetween
<1>4. ASSUME NEW p \in {1, 50, 95, 100}
      PROVE  100 * upTo(percentile(values, p)) >= p * n /\ 100 * below(percentile(values, p)) < p * n
  <2> DEFINE q == p * n
             k == (q + 99) \div 100
             v == values[k]
  <2>1. k \in 1..n /\ 100 * k >= q /\ 100 * (k - 1) < q
    <3>1. p \in 1..100 /\ n \in Nat \ {0}  BY <1>1, <1>3
    <3> QED BY <3>1, RankOf
  <2>2. percentile(values, p) = v
    <3>1. percentile(values, p) = values[Least(n, IF k < 1 THEN 1 ELSE k)]
      BY <1>2, <1>3 DEF percentile
    <3> HIDE DEF k
    <3>2. Least(n, IF k < 1 THEN 1 ELSE k) = k  BY <1>1, <2>1 DEF Least
    <3> QED BY <3>1, <3>2
  <2>3. v \in Nat /\ q \in Int
    <3>1. q \in Int  BY <1>1
    <3> HIDE DEF k
    <3> QED BY <1>1, <2>1, <3>1
  <2>4. k \in Nat /\ 1 <= k /\ k <= n  BY <1>1, <2>1
  <2>5. upTo(v) >= k /\ upTo(v) \in Nat
    <3> DEFINE T == {i \in 1..n : values[i] <= v}
    <3>1. T \in SUBSET (1..n)  OBVIOUS
    <3>2. \A i \in 1..k : i \in 1..n /\ i <= k  BY <1>1, <2>4
    <3> HIDE DEF k
    <3>3. 1..k \subseteq T  BY <1>1, <2>1, <3>2
    <3> HIDE DEF T
    <3>4. Cardinality(T) \in Nat /\ Cardinality(T) >= k - 1 + 1
      <4> DEFINE one == 1
      <4>1. one \in 1..n /\ k \in 0..n /\ one <= k + 1 /\ n \in Nat  BY <1>1, <2>4
      <4>2. one..k \subseteq T  BY <3>3
      <4> HIDE DEF one, n
      <4>3. Cardinality(T) \in Nat /\ Cardinality(T) >= k - one + 1  BY ONLY <1>8, <3>1, <4>1, <4>2
      <4> QED BY <4>3 DEF one
    <3>5. upTo(v) = Cardinality(T)  BY <1>3 DEF T
    <3> QED BY <2>4, <3>4, <3>5
  <2>6. below(v) < k /\ below(v) \in Nat
    <3> DEFINE T == {i \in 1..n : values[i] < v}
    <3>1. T \in SUBSET (1..n)  OBVIOUS
    <3> HIDE DEF k
    <3>2. \A i \in 1..n : values[i] \in Nat /\ (k <= i => v <= values[i])  BY <1>1, <2>1
    <3>3. T \subseteq 1..(k - 1)
      <4> SUFFICES ASSUME NEW i \in 1..n, values[i] < v PROVE i \in 1..(k - 1)
        OBVIOUS
      <4>1. ~(k <= i)  BY <2>3, <3>2
      <4> HIDE DEF v
      <4> QED BY <1>1, <2>4, <4>1
    <3> HIDE DEF T
    <3>4. Cardinality(T) \in Nat /\ Cardinality(T) <= (k - 1) - 1 + 1
      <4> DEFINE one == 1
                 end == k - 1
      <4>1. one \in 1..n /\ end \in 0..n /\ one <= end + 1 /\ n \in Nat  BY <1>1, <2>4
      <4>2. T \subseteq one..end  BY <3>3
      <4> HIDE DEF one, end, n
      <4>3. Cardinality(T) \in Nat /\ Cardinality(T) <= end - one + 1  BY ONLY <1>8, <3>1, <4>1, <4>2
      <4> QED BY <4>3 DEF one, end
    <3>5. below(v) = Cardinality(T)  BY <1>3 DEF T
    <3> QED BY <2>4, <3>4, <3>5
  <2> HIDE DEF k, q, v, upTo, below
  <2>7. 100 * upTo(v) >= q /\ 100 * below(v) < q
    <3>1. k \in Nat  BY <1>1, <2>1
    <3> QED BY <2>1, <2>3, <2>5, <2>6, <3>1
  <2> QED BY <2>2, <2>7 DEF q
<1>5. /\ 2 * Cardinality({i \in 1..n : 2 * values[i] <= m}) >= n
      /\ 2 * Cardinality({i \in 1..n : 2 * values[i] >= m}) >= n
  <2> DEFINE c == n \div 2
             l == IF n % 2 = 1 THEN c + 1 ELSE c
             low == {i \in 1..n : 2 * values[i] <= m}
             high == {i \in 1..n : 2 * values[i] >= m}
  <2>1. c \in Nat /\ c + 1 \in 1..n /\ l \in 1..n /\ 2 * l >= n /\ 2 * (n - (c + 1) + 1) >= n
    BY <1>1, <1>3
  <2>2. m = values[l] + values[c + 1]
    <3>1. m = IF n % 2 = 1 THEN 2 * values[c + 1] ELSE values[c] + values[c + 1]
      BY <1>2, <1>3 DEF medianTwice
    <3>2. values[c + 1] \in Nat  BY <1>1, <2>1
    <3>3. CASE n % 2 = 1
      <4>1. l = c + 1  BY <3>3
      <4> HIDE DEF m, l, c
      <4> QED BY <3>1, <3>2, <3>3, <4>1
    <3>4. CASE n % 2 # 1
      <4>1. l = c  BY <3>4
      <4> HIDE DEF m, l, c
      <4> QED BY <3>1, <3>4, <4>1
    <3> QED BY <3>3, <3>4
  <2>3. values[l] \in Nat /\ values[c + 1] \in Nat /\ values[l] <= values[c + 1]
    <3>1. l <= c + 1  BY <2>1
    <3> HIDE DEF l, c
    <3> QED BY <1>1, <2>1, <3>1
  <2> HIDE DEF l, c, m
  <2>4. m \in Nat /\ 2 * values[l] <= m /\ m <= 2 * values[c + 1]  BY <2>2, <2>3
  <2>5. \A i \in 1..n : values[i] \in Nat  BY <1>1
  <2>6. 1 \in 1..n /\ l \in 0..n /\ 1 <= l + 1 /\ n \in 0..n /\ c + 1 <= n + 1
    BY <1>1, <2>1
  <2>7. low \in SUBSET (1..n) /\ 1..l \subseteq low
    <3>1. \A i \in 1..l : i \in 1..n /\ i <= l  BY <1>1, <2>1
    <3>2. \A i \in 1..n : i <= l => values[i] <= values[l]  BY <1>1, <2>1
    <3> QED BY <2>3, <2>4, <2>5, <3>1, <3>2
  <2>8. high \in SUBSET (1..n) /\ (c + 1)..n \subseteq high
    <3>1. \A i \in (c + 1)..n : i \in 1..n /\ c + 1 <= i  BY <1>1, <2>1
    <3>2. \A i \in 1..n : c + 1 <= i => values[c + 1] <= values[i]  BY <1>1, <2>1
    <3> QED BY <2>3, <2>4, <2>5, <3>1, <3>2
  <2> HIDE DEF low, high
  <2>9. Cardinality(low) \in Nat /\ Cardinality(low) >= l - 1 + 1  BY <1>8, <2>6, <2>7
  <2>10. Cardinality(high) \in Nat /\ Cardinality(high) >= n - (c + 1) + 1
    BY <1>8, <2>1, <2>6, <2>8
  <2>11. 2 * Cardinality(low) >= n /\ 2 * Cardinality(high) >= n
    <3>1. l \in Nat /\ c \in Nat  BY <1>1, <2>1
    <3> QED BY <1>1, <2>1, <2>9, <2>10, <3>1
  <2> QED BY <2>11 DEF low, high
<1>6. \A p \in {1, 50, 95, 100} :
        LET v == percentile(values, p)
        IN  100 * upTo(v) >= p * Len(values) /\ 100 * below(v) < p * Len(values)
  <2>1. Len(values) = n  BY <1>3
  <2> HIDE DEF upTo, below
  <2> QED BY <1>4, <2>1
<1>7. /\ 2 * Cardinality({i \in DOMAIN values : 2 * values[i] <= m}) >= Len(values)
      /\ 2 * Cardinality({i \in DOMAIN values : 2 * values[i] >= m}) >= Len(values)
  BY <1>3, <1>5
<1> QED BY <1>6, <1>7 DEF PercentileIsNearestRank, values

LEMMA CountsAdd == FiguresInv => CountsAddUp
BY SeriesCount, NearestRank, ChartsCount, FilledDays DEF CountsAddUp

-----------------------------------------------------------------------------
(* The Runs page                                                           *)

RunsPageInv == FiguresInv /\ TableInv

\* The figures' state and the list's each keep what they promise.
THEOREM RunsPageInductive == MCSpec => []RunsPageInv
<1>1. MCInit => RunsPageInv
  BY FiguresStart, TableStarts DEF MCInit, RunsPageInv
<1>2. RunsPageInv /\ [MCNext]_<<figureVars, tableVars, part>> => RunsPageInv'
  <2> SUFFICES ASSUME RunsPageInv, [MCNext]_<<figureVars, tableVars, part>> PROVE RunsPageInv'
    OBVIOUS
  <2>1. [FiguresNext]_figureVars /\ [TableNext]_tableVars
    BY DEF MCNext
  <2> QED BY <2>1, FiguresKeep, TableKeeps DEF RunsPageInv
<1> QED BY <1>1, <1>2, PTL DEF MCSpec

\* The figures and the list keep their types: a run of the store is of its place
\* and was created before it was written, and the address, the chosen run and the
\* place in the history are ones that the page can read (runs-table.ts).
THEOREM RunsPageTyped == MCSpec => []RunsPageTypeOK
<1>1. RunsPageInv => RunsPageTypeOK
  BY TableInvSays DEF RunsPageInv, FiguresInv, RunsPageTypeOK
<1> QED BY <1>1, RunsPageInductive, PTL

\* A comparison with the window before, and the median of the status strip, are
\* shown only where the rows that were read hold every run of those days
\* (insight-aggregates.ts 35, LocalDashboardPage.tsx 2235-2237): a row older
\* than a day proves that every run written from that day on was read.
THEOREM WindowsWhole == MCSpec => []WindowsAreWhole
<1>1. RunsPageInv => WindowsAreWhole
  BY ComparisonWhole, MedianWhole DEF RunsPageInv, WindowsAreWhole
<1> QED BY <1>1, RunsPageInductive, PTL

\* Of the runs written in the window chosen, the count beside a cause has every
\* run that both links behind it list, and no other but one whose verdict was
\* served as a text, which only the charts read (insights.ts 49-75, LocalDashboardPage.tsx
\* 1122-1148); and a cell of the matrix and a day of the trend show as many runs as
\* their lists (usage-analysis.tsx 179 and 238), for whatever was served and read.
THEOREM ReadingsSame == MCSpec => []ReadingsAgree
<1>1. RunsPageInv => ReadingsAgree
  BY CausesSame, LinksList DEF RunsPageInv, ReadingsAgree
<1> QED BY <1>1, RunsPageInductive, PTL

\* Whatever runs were read, the series of a trend, the charts of a window and the
\* parts of a filled day add up to the runs they count, and a percentile is the
\* recorded duration at its nearest rank (decision-analysis.ts 52-57 and 167-192,
\* insights.ts 197-245): no run is counted twice, and none is left out.
THEOREM CountsRight == MCSpec => []CountsAddUp
<1>1. RunsPageInv => CountsAddUp
  BY CountsAdd DEF RunsPageInv
<1> QED BY <1>1, RunsPageInductive, PTL

\* The address names the page that is shown, the chosen run is on it, and the
\* pages hold every matching run once in the chosen order, whatever links were
\* followed and whatever arrived meanwhile (LocalDashboardPage.tsx, Runs page).
THEOREM OnePage == MCSpec => []PageIsOne
<1>1. RunsPageInv => PageIsOne
  BY TableInvSays DEF RunsPageInv
<1> QED BY <1>1, RunsPageInductive, PTL
=============================================================================
