-------------------------- MODULE DashboardsProofs --------------------------
(***************************************************************************)
(* Proofs about Dashboards, for any number of tabs: that the slice, the    *)
(* storage and the edit session stay in step, for which the contents of    *)
(* the layouts play no part; then what the layout operations make of a     *)
(* layout, the types, and what a browser with one tab can rely on.         *)
(***************************************************************************)
EXTENDS Dashboards, WellFoundedInduction, FiniteSetTheorems, SequenceTheorems, TLAPS

Distinct(D) == \A d, e \in D : d.id = e.id => d = e

\* A dashboard record whose id, if createId made it, has been handed out.
Known(d, handed) ==
  /\ d = [id |-> d.id, name |-> d.name, layout |-> d.layout]
  /\ d.id \in Ids
  /\ d.id \in NewDashboards => d.id \in handed

GoodList(D, handed) == Distinct(D) /\ \A d \in D : Known(d, handed)

Slices ==
  /\ list = [t \in Tabs |-> list[t]]
  /\ activeId \in [Tabs -> Ids \cup {None}]
  /\ active = [t \in Tabs |-> active[t]]
  /\ \A t \in Tabs : GoodList(list[t], minted)
  /\ \A t \in Tabs : active[t] = deriveActive(list[t], activeId[t])

Storage ==
  /\ GoodList(stored, minted)
  /\ storedActive \in Ids \cup {None}
  /\ \A d \in sent : Known(d, minted)
  /\ holders \subseteq Tabs
  /\ \A t \in holders : stored = list[t]

\* A snapshot belongs to the mounted page, and while the page is in edit mode to
\* the dashboard on screen.
Session ==
  /\ page \in [Tabs -> {"unloaded", "elsewhere", "dashboard"}]
  /\ editMode \in [Tabs -> BOOLEAN]
  /\ snapshot = [t \in Tabs |-> snapshot[t]]
  /\ snapshotOf = [t \in Tabs |-> snapshotOf[t]]
  /\ \A t \in Tabs : snapshot[t] # None =>
       /\ page[t] = "dashboard"
       /\ editMode[t] => active[t] # NoDashboard /\ snapshotOf[t] = activeId[t]

IInv == Slices /\ Storage /\ Session

-----------------------------------------------------------------------------
(* Dashboards and lists                                                    *)

\* deriveActive finds the entry with the id, or there is none.
LEMMA Derived ==
  ASSUME NEW D, NEW id
  PROVE  /\ (\E d \in D : d.id = id) => deriveActive(D, id) \in D /\ deriveActive(D, id).id = id
         /\ ~(\E d \in D : d.id = id) => deriveActive(D, id) = NoDashboard
<1>1. CASE \E d \in D : d.id = id
  <2>1. deriveActive(D, id) = CHOOSE d \in D : d.id = id  BY <1>1 DEF deriveActive
  <2> QED BY <1>1, <2>1
<1>2. CASE ~(\E d \in D : d.id = id)  BY <1>2 DEF deriveActive
<1> QED BY <1>1, <1>2

\* In a list of distinct ids it is the entry with that id.
LEMMA DerivedIs ==
  ASSUME NEW D, Distinct(D), NEW d \in D
  PROVE  deriveActive(D, d.id) = d
BY Derived DEF Distinct

\* A known dashboard is a dashboard.
LEMMA KnownIsSome ==
  ASSUME NEW d, NEW handed, Known(d, handed)
  PROVE  d # NoDashboard
<1>1. NoDashboard.id = None  BY DEF NoDashboard
<1> QED BY <1>1, DashboardValues DEF Known

\* More ids handed out leave a list good.
LEMMA HandedOut ==
  ASSUME NEW D, NEW handed, NEW more, handed \subseteq more, GoodList(D, handed)
  PROVE  GoodList(D, more)
BY DEF GoodList, Known

\* A new layout or name changes neither the id nor the shape.
LEMMA Changed ==
  ASSUME NEW d, NEW handed, Known(d, handed), NEW l, NEW n
  PROVE  /\ Known([d EXCEPT !.layout = l], handed) /\ [d EXCEPT !.layout = l].id = d.id
         /\ Known([d EXCEPT !.name = n], handed) /\ [d EXCEPT !.name = n].id = d.id
         /\ Known([id |-> d.id, name |-> n, layout |-> l], handed)
<1>1. PICK i, m, k : d = [id |-> i, name |-> m, layout |-> k]  BY DEF Known
<1>2. [d EXCEPT !.layout = l] = [id |-> i, name |-> m, layout |-> l]  BY <1>1
<1>3. [d EXCEPT !.name = n] = [id |-> i, name |-> n, layout |-> k]  BY <1>1
<1> QED BY <1>1, <1>2, <1>3 DEF Known

\* The repair and the pruning keep the id and the shape.
LEMMA Repaired ==
  ASSUME NEW d, NEW handed, Known(d, handed)
  PROVE  /\ Known(repairSeaDemoDashboard(d), handed) /\ repairSeaDemoDashboard(d).id = d.id
         /\ Known(pruneHiddenItems(d), handed) /\ pruneHiddenItems(d).id = d.id
BY Changed DEF repairSeaDemoDashboard, pruneHiddenItems

\* A map of a good list that keeps every id and shape is a good list.
LEMMA MappedList ==
  ASSUME NEW D, NEW handed, GoodList(D, handed), NEW f,
         \A d \in D : Known(f[d], handed) /\ f[d].id = d.id
  PROVE  GoodList({f[d] : d \in D}, handed)
BY DEF GoodList, Distinct

LEMMA RepairedList ==
  ASSUME NEW D, NEW handed, GoodList(D, handed)
  PROVE  GoodList({repairSeaDemoDashboard(d) : d \in D}, handed)
<1>1. \A d \in D : Known(repairSeaDemoDashboard(d), handed) /\ repairSeaDemoDashboard(d).id = d.id
  BY Repaired DEF GoodList
<1> DEFINE f == [d \in D |-> repairSeaDemoDashboard(d)]
<1>2. {f[d] : d \in D} = {repairSeaDemoDashboard(d) : d \in D}  OBVIOUS
<1>3. \A d \in D : Known(f[d], handed) /\ f[d].id = d.id  BY <1>1
<1>4. GoodList({f[d] : d \in D}, handed)
  <2> HIDE DEF f
  <2> QED BY <1>3, MappedList
<1> QED BY <1>2, <1>4

LEMMA RenamedList ==
  ASSUME NEW D, NEW handed, GoodList(D, handed), NEW id, NEW n
  PROVE  /\ GoodList(Renamed(D, id, n), handed)
         /\ \A i : (\E d \in D : d.id = i) => \E d \in Renamed(D, id, n) : d.id = i
<1> DEFINE g(d) == IF d.id = id THEN [d EXCEPT !.name = n] ELSE d
<1> DEFINE f == [d \in D |-> g(d)]
<1>1. \A d \in D : Known(g(d), handed) /\ g(d).id = d.id  BY Changed DEF GoodList
<1>2. {f[d] : d \in D} = {g(d) : d \in D}  OBVIOUS
<1>3. \A d \in D : Known(f[d], handed) /\ f[d].id = d.id  BY <1>1
<1>4. \A i : (\E d \in D : d.id = i) => \E d \in {g(e) : e \in D} : d.id = i  BY <1>1
<1>5. GoodList({f[d] : d \in D}, handed)
  <2> HIDE DEF f
  <2> QED BY <1>3, MappedList
<1>6. Renamed(D, id, n) = {g(d) : d \in D}  BY DEF Renamed
<1> HIDE DEF f, g
<1> QED BY <1>2, <1>4, <1>5, <1>6

\* Replacing an entry by one of its id keeps the list good and holds the new entry.
LEMMA Replaced ==
  ASSUME NEW D, NEW handed, GoodList(D, handed), NEW d, Known(d, handed)
  PROVE  /\ GoodList(Replace(D, d), handed)
         /\ (\E e \in D : e.id = d.id) => d \in Replace(D, d)
         /\ \A i : (\E e \in D : e.id = i) => \E e \in Replace(D, d) : e.id = i
BY DEF GoodList, Distinct, Replace

LEMMA Extended ==
  ASSUME NEW D, NEW handed, GoodList(D, handed), NEW d, Known(d, handed),
         \A e \in D : e.id # d.id
  PROVE  GoodList(D \cup {d}, handed)
BY DEF GoodList, Distinct
-----------------------------------------------------------------------------
(* The store and localStorage                                              *)

\* A dashboard is on screen exactly when the list has the active id, and it is
\* that entry.
LEMMA OnScreen ==
  ASSUME Slices, NEW t \in Tabs
  PROVE  /\ active[t] # NoDashboard <=> \E d \in list[t] : d.id = activeId[t]
         /\ active[t] # NoDashboard =>
              active[t] \in list[t] /\ active[t].id = activeId[t] /\ Known(active[t], minted)
<1>1. active[t] = deriveActive(list[t], activeId[t]) /\ GoodList(list[t], minted)  BY DEF Slices
<1>2. CASE \E d \in list[t] : d.id = activeId[t]
  <2>1. active[t] \in list[t] /\ active[t].id = activeId[t]  BY <1>1, <1>2, Derived
  <2>2. Known(active[t], minted)  BY <1>1, <2>1 DEF GoodList
  <2> QED BY <1>2, <2>1, <2>2, KnownIsSome
<1>3. CASE ~(\E d \in list[t] : d.id = activeId[t])  BY <1>1, <1>3, Derived
<1> QED BY <1>2, <1>3

\* set() with a good list and its entry of the new active id.
LEMMA NewSlice ==
  ASSUME Slices, NEW t \in Tabs, minted \subseteq minted',
         NEW D, NEW id \in Ids \cup {None}, NEW d,
         SetSlice(t, D, id, d), GoodList(D, minted'), d = deriveActive(D, id)
  PROVE  /\ Slices'
         /\ list'[t] = D /\ activeId'[t] = id /\ active'[t] = d
         /\ \A u \in Tabs \ {t} :
              list'[u] = list[u] /\ activeId'[u] = activeId[u] /\ active'[u] = active[u]
<1>1. list' = [u \in Tabs |-> IF u = t THEN D ELSE list[u]]  BY DEF SetSlice, Slices
<1>2. activeId' = [u \in Tabs |-> IF u = t THEN id ELSE activeId[u]]  BY DEF SetSlice, Slices
<1>3. active' = [u \in Tabs |-> IF u = t THEN d ELSE active[u]]  BY DEF SetSlice, Slices
<1>4. activeId' \in [Tabs -> Ids \cup {None}]  BY <1>2 DEF Slices
<1>5. \A u \in Tabs : GoodList(list'[u], minted')
  <2> SUFFICES ASSUME NEW u \in Tabs PROVE GoodList(list'[u], minted')  OBVIOUS
  <2>1. CASE u = t  BY <1>1, <2>1
  <2>2. CASE u # t
    <3>1. GoodList(list[u], minted)  BY DEF Slices
    <3>2. GoodList(list[u], minted')  BY <3>1, HandedOut
    <3> QED BY <1>1, <2>2, <3>2
  <2> QED BY <2>1, <2>2
<1>6. \A u \in Tabs : active'[u] = deriveActive(list'[u], activeId'[u])
  <2> SUFFICES ASSUME NEW u \in Tabs PROVE active'[u] = deriveActive(list'[u], activeId'[u])  OBVIOUS
  <2>1. CASE u = t  BY <1>1, <1>2, <1>3, <2>1
  <2>2. CASE u # t
    <3>1. active[u] = deriveActive(list[u], activeId[u])  BY DEF Slices
    <3> QED BY <1>1, <1>2, <1>3, <2>2, <3>1
  <2> QED BY <2>1, <2>2
<1>7. list' = [u \in Tabs |-> list'[u]] /\ active' = [u \in Tabs |-> active'[u]]  BY <1>1, <1>3
<1>8. Slices'  BY <1>4, <1>5, <1>6, <1>7 DEF Slices, deriveActive, NoDashboard, GoodList, Distinct, Known, Ids
<1> QED BY <1>1, <1>2, <1>3, <1>8

\* A new layout of the dashboard on screen, in the list too.
LEMMA LayoutSlice ==
  ASSUME Slices, NEW t \in Tabs, active[t] # NoDashboard, minted \subseteq minted',
         NEW layout, SetLayout(t, layout)
  PROVE  /\ Slices' /\ UNCHANGED activeId
         /\ list'[t] = Replace(list[t], [active[t] EXCEPT !.layout = layout])
         /\ \A u \in Tabs \ {t} : list'[u] = list[u] /\ active'[u] = active[u]
         /\ active'[t] # NoDashboard
<1> DEFINE d == [active[t] EXCEPT !.layout = layout]
           D == Replace(list[t], d)
<1>1. active[t] \in list[t] /\ active[t].id = activeId[t] /\ Known(active[t], minted)  BY OnScreen
<1>2. Known(d, minted) /\ d.id = activeId[t]  BY <1>1, Changed
<1>3. GoodList(D, minted) /\ d \in D
  <2>1. GoodList(list[t], minted)  BY DEF Slices
  <2> HIDE DEF d
  <2> QED BY <1>1, <1>2, <2>1, Replaced
<1>4. GoodList(D, minted')  BY <1>3, HandedOut
<1>5. d = deriveActive(D, activeId[t])
  <2> HIDE DEF d, D
  <2> QED BY <1>2, <1>3, DerivedIs DEF GoodList
<1>6. SetSlice(t, D, activeId[t], d)
  <2>1. activeId' = [activeId EXCEPT ![t] = activeId[t]]  BY DEF SetLayout, Slices
  <2> QED BY <2>1 DEF SetLayout, SetSlice
<1>7. activeId[t] \in Ids \cup {None}  BY DEF Slices
<1>8. d # NoDashboard
  <2> HIDE DEF d
  <2> QED BY <1>2, KnownIsSome
<1>9. Slices' /\ list'[t] = D /\ active'[t] = d
      /\ \A u \in Tabs \ {t} : list'[u] = list[u] /\ active'[u] = active[u]
  <2> HIDE DEF d, D
  <2> QED BY <1>4, <1>5, <1>6, <1>7, NewSlice
<1> QED BY <1>8, <1>9 DEF SetLayout

LEMMA SameSlice ==
  ASSUME Slices, UNCHANGED slice, minted \subseteq minted'
  PROVE  Slices'
<1>1. list' = list /\ activeId' = activeId /\ active' = active  BY DEF slice
<1>2. \A t \in Tabs : GoodList(list[t], minted')
  <2> SUFFICES ASSUME NEW t \in Tabs PROVE GoodList(list[t], minted')  OBVIOUS
  <2>1. GoodList(list[t], minted)  BY DEF Slices
  <2> QED BY <2>1, HandedOut
<1> QED BY <1>1, <1>2 DEF Slices, deriveActive, NoDashboard, GoodList, Distinct, Known, Ids

\* A tab that stores its new list holds the storage, or nobody's hold is broken.
LEMMA ListStored ==
  ASSUME Storage, NEW t \in Tabs, minted \subseteq minted',
         NEW D, GoodList(D, minted'), persistList(t, D), list'[t] = D,
         \A u \in Tabs \ {t} : list'[u] = list[u],
         storedActive' \in Ids \cup {None},
         \A d \in sent' : Known(d, minted')
  PROVE  Storage'
<1>1. GoodList(stored, minted')
  <2>1. GoodList(stored, minted)  BY DEF Storage
  <2> QED BY <2>1, HandedOut
<1>2. GoodList(stored', minted')  BY <1>1 DEF persistList
<1>3. holders' \subseteq Tabs  BY DEF persistList, Storage
<1>4. \A u \in holders' : stored' = list'[u]  BY DEF persistList, Storage
<1> QED BY <1>2, <1>3, <1>4 DEF Storage, GoodList, Distinct, Known, Ids

LEMMA SentKnown ==
  ASSUME Storage, minted \subseteq minted'
  PROVE  \A d \in sent : Known(d, minted')
BY DEF Storage, Known

\* A step that stores nothing drops the hold of every tab whose list it changes.
LEMMA NothingStored ==
  ASSUME Storage, minted \subseteq minted', UNCHANGED stored,
         holders' \subseteq holders, \A u \in holders' : list'[u] = list[u],
         storedActive' \in Ids \cup {None},
         \A d \in sent' : Known(d, minted')
  PROVE  Storage'
<1>1. GoodList(stored, minted')
  <2>1. GoodList(stored, minted)  BY DEF Storage
  <2> QED BY <2>1, HandedOut
<1> QED BY <1>1 DEF Storage, GoodList, Distinct, Known, Ids

LEMMA ActiveIdStored ==
  ASSUME Storage, NEW id \in Ids \cup {None}, persistActiveId(id)
  PROVE  storedActive' \in Ids \cup {None}
BY DEF Storage, persistActiveId

-----------------------------------------------------------------------------
(* The edit session                                                        *)

\* A step of one tab that leaves the session alone, and the dashboard on screen too.
LEMMA SameSession ==
  ASSUME Session, NEW t \in Tabs, UNCHANGED <<view, editMode, activeId>>,
         \A u \in Tabs \ {t} : active'[u] = active[u],
         active[t] # NoDashboard => active'[t] # NoDashboard
  PROVE  Session'
BY DEF Session, view, NoDashboard

\* A step that ends the edit mode of a tab and its snapshot.
LEMMA Ended ==
  ASSUME Session, NEW t \in Tabs, NoSnapshot(t),
         page' \in [Tabs -> {"unloaded", "elsewhere", "dashboard"}],
         editMode' \in [Tabs -> BOOLEAN],
         \A u \in Tabs \ {t} : /\ page'[u] = page[u] /\ editMode'[u] = editMode[u]
                               /\ active'[u] = active[u] /\ activeId'[u] = activeId[u]
  PROVE  Session'
<1>1. /\ snapshot' = [u \in Tabs |-> IF u = t THEN None ELSE snapshot[u]]
      /\ snapshotOf' = [u \in Tabs |-> IF u = t THEN None ELSE snapshotOf[u]]
  BY DEF Session, NoSnapshot
<1>2. ASSUME NEW u \in Tabs, snapshot'[u] # None
      PROVE  /\ page'[u] = "dashboard"
             /\ editMode'[u] => active'[u] # NoDashboard /\ snapshotOf'[u] = activeId'[u]
  <2>1. u # t /\ snapshot'[u] = snapshot[u] /\ snapshotOf'[u] = snapshotOf[u]  BY <1>1, <1>2
  <2> QED BY <1>2, <2>1 DEF Session
<1>3. snapshot' = [u \in Tabs |-> snapshot'[u]] /\ snapshotOf' = [u \in Tabs |-> snapshotOf'[u]]
  BY <1>1
<1> QED BY <1>2, <1>3 DEF Session

\* A switch ends the edit mode of a page that shows another dashboard.
LEMMA Switched ==
  ASSUME Slices, Session, NEW t \in Tabs, NEW id, CloseOnSwitch(t, id),
         Show(t) \/ UNCHANGED view, activeId'[t] = id,
         active[t] # NoDashboard /\ id = active[t].id => active'[t] # NoDashboard,
         \A u \in Tabs \ {t} : active'[u] = active[u] /\ activeId'[u] = activeId[u]
  PROVE  Session'
<1>1. /\ page' \in [Tabs -> {"unloaded", "elsewhere", "dashboard"}]
      /\ \A u \in Tabs \ {t} : page'[u] = page[u]
      /\ page[t] = "dashboard" => page'[t] = "dashboard"
      /\ UNCHANGED <<snapshot, snapshotOf>>
  BY DEF Session, Show, view
<1>2. /\ editMode' \in [Tabs -> BOOLEAN]
      /\ \A u \in Tabs \ {t} : editMode'[u] = editMode[u]
      /\ editMode'[t] => editMode[t] /\ ~(page[t] = "dashboard" /\ active[t] # NoDashboard /\ id # active[t].id)
  BY DEF Session, CloseOnSwitch
<1>3. snapshot[t] # None /\ editMode'[t] => active'[t] # NoDashboard /\ snapshotOf[t] = activeId'[t]
  <2> SUFFICES ASSUME snapshot[t] # None, editMode'[t]
               PROVE  active'[t] # NoDashboard /\ snapshotOf[t] = activeId'[t]  OBVIOUS
  <2>1. page[t] = "dashboard" /\ active[t] # NoDashboard /\ snapshotOf[t] = activeId[t]
    BY <1>2 DEF Session
  <2>2. id = active[t].id /\ active[t].id = activeId[t]  BY <1>2, <2>1, OnScreen
  <2> QED BY <2>1, <2>2
<1> QED BY <1>1, <1>2, <1>3 DEF Session, NoDashboard

-----------------------------------------------------------------------------
(* The operations                                                          *)

\* A layout operation that stores the list.
LEMMA StoreLayoutKeeps ==
  ASSUME IInv, NEW t \in Tabs, Shown(t), NEW layout, StoreLayout(t, layout),
         minted \subseteq minted', UNCHANGED <<sent, editMode, view>>
  PROVE  IInv'
<1> DEFINE D == Replace(list[t], [active[t] EXCEPT !.layout = layout])
<1>1. SetLayout(t, layout) /\ persistList(t, D) /\ UNCHANGED storedActive  BY DEF StoreLayout
<1>2. active[t] # NoDashboard  BY DEF Shown
<1>3. /\ Slices' /\ UNCHANGED activeId /\ list'[t] = D /\ active'[t] # NoDashboard
      /\ \A u \in Tabs \ {t} : list'[u] = list[u] /\ active'[u] = active[u]
  BY <1>1, <1>2, LayoutSlice DEF IInv
<1>4. GoodList(D, minted')  BY <1>3 DEF Slices
<1>5. Storage'
  <2> HIDE DEF D
  <2>1. \A d \in sent' : Known(d, minted')  BY SentKnown DEF IInv
  <2> QED BY <1>1, <1>3, <1>4, <2>1, ListStored DEF IInv, Storage
<1>6. Session'  BY <1>3, SameSession DEF IInv
<1> QED BY <1>3, <1>5, <1>6 DEF IInv

\* One that does not.
LEMMA KeepLayoutKeeps ==
  ASSUME IInv, NEW t \in Tabs, Shown(t), NEW layout, KeepLayout(t, layout),
         minted \subseteq minted', \A d \in sent' : Known(d, minted')
  PROVE  /\ Slices' /\ Storage' /\ UNCHANGED activeId /\ active'[t] # NoDashboard
         /\ \A u \in Tabs \ {t} : active'[u] = active[u]
<1>1. /\ Slices' /\ UNCHANGED activeId /\ active'[t] # NoDashboard
      /\ \A u \in Tabs \ {t} : list'[u] = list[u] /\ active'[u] = active[u]
  BY LayoutSlice DEF KeepLayout, IInv, Shown
<1>2. Storage'  BY <1>1, NothingStored DEF KeepLayout, IInv, Storage
<1> QED BY <1>1, <1>2

LEMMA LoadKeeps ==
  ASSUME IInv, NEW t \in Tabs, Load(t)
  PROVE  IInv'
<1> DEFINE D == {repairSeaDemoDashboard(d) : d \in stored}
<1>1. GoodList(D, minted)  BY RepairedList DEF IInv, Storage
<1>2. /\ SetSlice(t, D, storedActive, deriveActive(D, storedActive))
      /\ IF D # stored THEN persistList(t, D) ELSE stored' = stored /\ holders' = holders \cup {t}
      /\ UNCHANGED <<storedActive, sent, minted>>
      /\ page' = [page EXCEPT ![t] = "elsewhere"]
      /\ editMode' = [editMode EXCEPT ![t] = FALSE]
      /\ NoSnapshot(t)
  BY DEF Load
<1> HIDE DEF D
<1>3. storedActive \in Ids \cup {None}  BY DEF IInv, Storage
<1>4. /\ Slices' /\ list'[t] = D
      /\ \A u \in Tabs \ {t} :
           list'[u] = list[u] /\ activeId'[u] = activeId[u] /\ active'[u] = active[u]
  BY <1>1, <1>2, <1>3, NewSlice DEF IInv
<1>5. Storage'
  <2>1. \A d \in sent' : Known(d, minted')  BY <1>2 DEF IInv, Storage
  <2>2. CASE D # stored  BY <1>1, <1>2, <1>3, <1>4, <2>1, <2>2, ListStored DEF IInv
  <2>3. CASE D = stored
    <3>1. \A u \in holders' : stored' = list'[u]  BY <1>2, <1>4, <2>3 DEF IInv, Storage
    <3> QED BY <1>1, <1>2, <1>3, <2>1, <2>3, <3>1 DEF IInv, Storage, GoodList, Distinct, Known, Ids
  <2> QED BY <2>2, <2>3
<1>6. Session'
  <2>1. page' \in [Tabs -> {"unloaded", "elsewhere", "dashboard"}]
        /\ \A u \in Tabs \ {t} : page'[u] = page[u]
    BY <1>2 DEF IInv, Session
  <2>2. editMode' \in [Tabs -> BOOLEAN] /\ \A u \in Tabs \ {t} : editMode'[u] = editMode[u]
    BY <1>2 DEF IInv, Session
  <2> QED BY <1>2, <1>4, <2>1, <2>2, Ended DEF IInv
<1> QED BY <1>4, <1>5, <1>6 DEF IInv

LEMMA PageKeeps ==
  ASSUME IInv, NEW t \in Tabs, Mount(t) \/ Leave(t)
  PROVE  IInv'
<1>1. /\ UNCHANGED <<storage, sent, minted, slice, editMode>>
      /\ UNCHANGED <<list, activeId, active, stored, storedActive, holders>>
  BY DEF Mount, Leave, slice, storage
<1>2. Slices'  BY <1>1, SameSlice DEF IInv
<1>3. Storage'  BY <1>1 DEF IInv, Storage, GoodList, Distinct, Known, Ids
<1>4. CASE Mount(t)
  <2>1. Session'  BY <1>1, <1>4 DEF Mount, Show, IInv, Session, NoDashboard, view
  <2> QED BY <1>2, <1>3, <2>1 DEF IInv
<1>5. CASE Leave(t)
  <2>1. page' \in [Tabs -> {"unloaded", "elsewhere", "dashboard"}]
        /\ \A u \in Tabs \ {t} : page'[u] = page[u]
    BY <1>5 DEF Leave, IInv, Session
  <2>2. editMode' \in [Tabs -> BOOLEAN]  BY <1>1 DEF IInv, Session
  <2>3. NoSnapshot(t)  BY <1>5 DEF Leave
  <2>4. Session'  BY <1>1, <2>1, <2>2, <2>3, Ended DEF IInv
  <2> QED BY <1>2, <1>3, <2>4 DEF IInv
<1> QED BY <1>4, <1>5

\* setActiveDashboard with a known dashboard.
LEMMA SetActiveKeeps ==
  ASSUME Slices, Storage, NEW t \in Tabs, NEW d, Known(d, minted), setActiveDashboard(t, d),
         UNCHANGED <<minted, sent>>
  PROVE  /\ Slices' /\ Storage'
         /\ \A u \in Tabs \ {t} : activeId'[u] = activeId[u] /\ active'[u] = active[u]
<1> DEFINE D == IF \E e \in list[t] : e.id = d.id THEN Replace(list[t], d) ELSE list[t] \cup {d}
<1>1. SetSlice(t, D, d.id, d) /\ persistList(t, D) /\ persistActiveId(d.id)  BY DEF setActiveDashboard
<1>2. GoodList(list[t], minted)  BY DEF Slices
<1>3. GoodList(D, minted) /\ d \in D
  <2>1. CASE \E e \in list[t] : e.id = d.id  BY <1>2, <2>1, Replaced
  <2>2. CASE ~(\E e \in list[t] : e.id = d.id)  BY <1>2, <2>2, Extended
  <2> QED BY <2>1, <2>2
<1> HIDE DEF D
<1>4. d = deriveActive(D, d.id)  BY <1>3, DerivedIs DEF GoodList
<1>5. d.id \in Ids \cup {None}  BY DEF Known
<1>6. /\ Slices' /\ list'[t] = D
      /\ \A u \in Tabs \ {t} :
           list'[u] = list[u] /\ activeId'[u] = activeId[u] /\ active'[u] = active[u]
  BY <1>1, <1>3, <1>4, <1>5, NewSlice
<1>7. Storage'
  <2>1. \A e \in sent' : Known(e, minted')  BY DEF Storage
  <2>2. storedActive' \in Ids \cup {None}  BY <1>1, <1>5, ActiveIdStored
  <2> QED BY <1>1, <1>3, <1>6, <2>1, <2>2, ListStored
<1> QED BY <1>6, <1>7

LEMMA HydrateKeeps ==
  ASSUME IInv, NEW t \in Tabs, HydrateAnswer(t)
  PROVE  IInv'
<1>1. UNCHANGED <<sent, minted, editMode, page, snapshot, snapshotOf>>  BY DEF HydrateAnswer
<1>2. CASE active[t] # NoDashboard
  <2>1. UNCHANGED <<list, activeId, active, stored, storedActive, holders>> /\ UNCHANGED slice
    BY <1>2 DEF HydrateAnswer, slice, storage
  <2>2. Slices'  BY <1>1, <2>1, SameSlice DEF IInv
  <2>3. Storage'  BY <1>1, <2>1 DEF IInv, Storage, GoodList, Distinct, Known, Ids
  <2>4. Session'  BY <1>1, <2>1 DEF IInv, Session, NoDashboard
  <2> QED BY <2>2, <2>3, <2>4 DEF IInv
<1>3. CASE active[t] = NoDashboard
  <2>1. PICK answer \in sent \cup {NoDashboard} :
          setActiveDashboard(t, pruneHiddenItems(IF answer = NoDashboard THEN Template
                                                 ELSE repairSeaDemoDashboard(answer)))
    BY <1>3 DEF HydrateAnswer
  <2> DEFINE found == IF answer = NoDashboard THEN Template ELSE repairSeaDemoDashboard(answer)
  <2>2. Known(Template, minted)
    BY DashboardValues DEF Template, Known, Ids
  <2>3. Known(found, minted)
    <3>1. answer # NoDashboard => Known(answer, minted)  BY DEF IInv, Storage
    <3> QED BY <2>2, <3>1, Repaired
  <2>4. Known(pruneHiddenItems(found), minted)
    <3> HIDE DEF found
    <3> QED BY <2>3, Repaired
  <2>5. /\ Slices' /\ Storage'
        /\ \A u \in Tabs \ {t} : activeId'[u] = activeId[u] /\ active'[u] = active[u]
    BY <1>1, <2>1, <2>4, SetActiveKeeps DEF IInv
  <2>6. Session'  BY <1>1, <1>3, <2>5 DEF IInv, Session, NoDashboard
  <2> QED BY <2>5, <2>6 DEF IInv
<1> QED BY <1>2, <1>3

LEMMA CreateKeeps ==
  ASSUME IInv, NEW t \in Tabs, NEW name, createDashboard(t, name)
  PROVE  IInv'
<1>1. PICK id \in NewDashboards :
        /\ Mint(id)
        /\ SetSlice(t, list[t] \cup {[id |-> id, name |-> name, layout |-> <<>>]}, id,
                    [id |-> id, name |-> name, layout |-> <<>>])
        /\ persistList(t, list[t] \cup {[id |-> id, name |-> name, layout |-> <<>>]})
        /\ persistActiveId(id) /\ CloseOnSwitch(t, id) /\ Show(t) /\ UNCHANGED sent
  BY DEF createDashboard
<1> DEFINE d == [id |-> id, name |-> name, layout |-> <<>>]
           D == list[t] \cup {d}
<1>2. minted' = minted \cup {id} /\ id \notin minted  BY <1>1 DEF Mint
<1>3. Known(d, minted') /\ d.id = id  BY <1>2 DEF Known, Ids
<1>4. GoodList(list[t], minted') /\ \A e \in list[t] : e.id # id
  <2>1. GoodList(list[t], minted)  BY DEF IInv, Slices
  <2>2. GoodList(list[t], minted')  BY <1>2, <2>1, HandedOut
  <2> QED BY <1>2, <2>1, <2>2 DEF GoodList, Known
<1>5. GoodList(D, minted') /\ d \in D
  <2> HIDE DEF d
  <2> QED BY <1>3, <1>4, Extended
<1>6. d = deriveActive(D, id)
  <2> HIDE DEF d, D
  <2> QED BY <1>3, <1>5, DerivedIs DEF GoodList
<1>7. id \in Ids \cup {None}  BY DEF Ids
<1>8. SetSlice(t, D, id, d) /\ persistList(t, D)  BY <1>1
<1>9. d # NoDashboard
  <2> HIDE DEF d
  <2> QED BY <1>3, KnownIsSome
<1> HIDE DEF d, D
<1>10. /\ Slices' /\ list'[t] = D /\ activeId'[t] = id /\ active'[t] = d
       /\ \A u \in Tabs \ {t} :
            list'[u] = list[u] /\ activeId'[u] = activeId[u] /\ active'[u] = active[u]
  BY <1>2, <1>5, <1>6, <1>7, <1>8, NewSlice DEF IInv
<1>11. Storage'
  <2>1. \A e \in sent' : Known(e, minted')  BY <1>1, <1>2, SentKnown DEF IInv
  <2>2. storedActive' \in Ids \cup {None}  BY <1>1, <1>7, ActiveIdStored DEF IInv
  <2> QED BY <1>2, <1>5, <1>8, <1>10, <2>1, <2>2, ListStored DEF IInv
<1>12. Session'  BY <1>1, <1>9, <1>10, Switched DEF IInv
<1> QED BY <1>10, <1>11, <1>12 DEF IInv

LEMMA DuplicateKeeps ==
  ASSUME IInv, NEW t \in Tabs, NEW oldId, duplicateDashboard(t, oldId)
  PROVE  IInv'
<1>1. PICK source \in list[t], id \in NewDashboards, name \in PlainNames :
        LET copy == [id |-> id, name |-> name, layout |-> source.layout]
        IN /\ Mint(id)
           /\ SetSlice(t, list[t] \cup {copy}, id, copy)
           /\ persistList(t, list[t] \cup {copy})
           /\ persistActiveId(id) /\ CloseOnSwitch(t, id) /\ UNCHANGED <<sent, view>>
  BY DEF duplicateDashboard
<1> DEFINE d == [id |-> id, name |-> name, layout |-> source.layout]
           D == list[t] \cup {d}
<1>2. minted' = minted \cup {id} /\ id \notin minted  BY <1>1 DEF Mint
<1>3. Known(d, minted') /\ d.id = id  BY <1>2 DEF Known, Ids
<1>4. GoodList(list[t], minted') /\ \A e \in list[t] : e.id # id
  <2>1. GoodList(list[t], minted)  BY DEF IInv, Slices
  <2>2. GoodList(list[t], minted')  BY <1>2, <2>1, HandedOut
  <2> QED BY <1>2, <2>1, <2>2 DEF GoodList, Known
<1>5. GoodList(D, minted') /\ d \in D
  <2> HIDE DEF d
  <2> QED BY <1>3, <1>4, Extended
<1>6. d = deriveActive(D, id)
  <2> HIDE DEF d, D
  <2> QED BY <1>3, <1>5, DerivedIs DEF GoodList
<1>7. id \in Ids \cup {None}  BY DEF Ids
<1>8. SetSlice(t, D, id, d) /\ persistList(t, D)  BY <1>1
<1>9. d # NoDashboard
  <2> HIDE DEF d
  <2> QED BY <1>3, KnownIsSome
<1>14. persistActiveId(id) /\ CloseOnSwitch(t, id) /\ UNCHANGED <<sent, view>>  BY <1>1
<1> HIDE DEF d, D
<1>10. /\ Slices' /\ list'[t] = D /\ activeId'[t] = id /\ active'[t] = d
       /\ \A u \in Tabs \ {t} :
            list'[u] = list[u] /\ activeId'[u] = activeId[u] /\ active'[u] = active[u]
  BY <1>2, <1>5, <1>6, <1>7, <1>8, NewSlice DEF IInv
<1>11. Storage'
  <2>1. \A e \in sent' : Known(e, minted')  BY <1>14, <1>2, SentKnown DEF IInv
  <2>2. storedActive' \in Ids \cup {None}  BY <1>14, <1>7, ActiveIdStored DEF IInv
  <2> QED BY <1>2, <1>5, <1>8, <1>10, <2>1, <2>2, ListStored DEF IInv
<1>12. Session'  BY <1>14, <1>9, <1>10, Switched DEF IInv
<1> QED BY <1>10, <1>11, <1>12 DEF IInv

LEMMA RenameKeeps ==
  ASSUME IInv, NEW t \in Tabs, NEW id, NEW name, renameDashboard(t, id, name)
  PROVE  IInv'
<1> DEFINE D == Renamed(list[t], id, name)
<1>1. /\ SetSlice(t, D, activeId[t], deriveActive(D, activeId[t])) /\ persistList(t, D)
      /\ UNCHANGED <<storedActive, sent, minted, editMode, view>>
  BY DEF renameDashboard
<1>2. GoodList(list[t], minted)  BY DEF IInv, Slices
<1>3. /\ GoodList(D, minted)
      /\ \A i : (\E d \in list[t] : d.id = i) => \E d \in D : d.id = i
  BY <1>2, RenamedList
<1> HIDE DEF D
<1>4. activeId[t] \in Ids \cup {None}  BY DEF IInv, Slices
<1>5. /\ Slices' /\ list'[t] = D /\ activeId'[t] = activeId[t]
      /\ active'[t] = deriveActive(D, activeId[t])
      /\ \A u \in Tabs \ {t} :
           list'[u] = list[u] /\ activeId'[u] = activeId[u] /\ active'[u] = active[u]
  BY <1>1, <1>3, <1>4, NewSlice DEF IInv
<1>6. Storage'
  <2>1. \A d \in sent' : Known(d, minted')  BY <1>1 DEF IInv, Storage
  <2> QED BY <1>1, <1>3, <1>5, <2>1, ListStored DEF IInv, Storage
<1>7. Session'
  <2>1. active[t] # NoDashboard => active'[t] # NoDashboard
    <3> SUFFICES ASSUME active[t] # NoDashboard PROVE active'[t] # NoDashboard  OBVIOUS
    <3>1. \E d \in D : d.id = activeId[t]  BY <1>3, OnScreen DEF IInv
    <3>2. active'[t] \in D  BY <1>5, <3>1, Derived
    <3> QED BY <1>3, <3>2, KnownIsSome DEF GoodList
  <2>2. activeId' = activeId  BY <1>1 DEF IInv, Slices, SetSlice
  <2> QED BY <1>1, <1>5, <2>1, <2>2, SameSession DEF IInv
<1> QED BY <1>5, <1>6, <1>7 DEF IInv

LEMMA DeleteKeeps ==
  ASSUME IInv, NEW t \in Tabs, NEW id, deleteDashboard(t, id)
  PROVE  IInv'
<1> DEFINE D == {d \in list[t] : d.id # id}
           next == IF activeId[t] # id THEN {activeId[t]}
                   ELSE IF D = {} THEN {None} ELSE {d.id : d \in D}
<1>1. PICK newId \in next :
        /\ SetSlice(t, D, newId, deriveActive(D, newId)) /\ persistList(t, D)
        /\ persistActiveId(newId) /\ CloseOnSwitch(t, newId)
        /\ UNCHANGED <<sent, minted, view>>
  BY DEF deleteDashboard
<1>2. GoodList(list[t], minted) /\ activeId[t] \in Ids \cup {None}  BY DEF IInv, Slices
<1>3. GoodList(D, minted)  BY <1>2 DEF GoodList, Distinct
<1>4. newId \in Ids \cup {None}  BY <1>2 DEF GoodList, Known
<1>5. active[t] # NoDashboard /\ newId = active[t].id => \E d \in D : d.id = newId
  <2> SUFFICES ASSUME active[t] # NoDashboard, newId = active[t].id
               PROVE  \E d \in D : d.id = newId  OBVIOUS
  <2>1. active[t] \in list[t] /\ active[t].id = activeId[t]  BY OnScreen DEF IInv
  <2>2. CASE activeId[t] # id  BY <2>1, <2>2
  <2>3. CASE activeId[t] = id
    <3>1. active[t].id # None  BY <1>2, <2>1, DashboardValues DEF GoodList, Known
    <3> QED BY <2>3, <3>1
  <2> QED BY <2>2, <2>3
<1> HIDE DEF D, next
<1>6. /\ Slices' /\ list'[t] = D /\ activeId'[t] = newId /\ active'[t] = deriveActive(D, newId)
      /\ \A u \in Tabs \ {t} :
           list'[u] = list[u] /\ activeId'[u] = activeId[u] /\ active'[u] = active[u]
  BY <1>1, <1>3, <1>4, NewSlice DEF IInv
<1>7. Storage'
  <2>1. \A d \in sent' : Known(d, minted')  BY <1>1 DEF IInv, Storage
  <2>2. storedActive' \in Ids \cup {None}  BY <1>1, <1>4, ActiveIdStored DEF IInv
  <2> QED BY <1>1, <1>3, <1>6, <2>1, <2>2, ListStored DEF IInv
<1>8. Session'
  <2>1. active[t] # NoDashboard /\ newId = active[t].id => active'[t] # NoDashboard
    <3> SUFFICES ASSUME active[t] # NoDashboard, newId = active[t].id
                 PROVE  active'[t] # NoDashboard  OBVIOUS
    <3>1. active'[t] \in D  BY <1>5, <1>6, Derived
    <3> QED BY <1>3, <3>1, KnownIsSome DEF GoodList
  <2> QED BY <1>1, <1>6, <2>1, Switched DEF IInv
<1> QED BY <1>6, <1>7, <1>8 DEF IInv

LEMMA SwitchKeeps ==
  ASSUME IInv, NEW t \in Tabs, NEW id \in Ids, setActiveDashboardById(t, id)
  PROVE  IInv'
<1>1. /\ SetSlice(t, list[t], id, deriveActive(list[t], id)) /\ persistActiveId(id)
      /\ CloseOnSwitch(t, id) /\ Show(t) /\ UNCHANGED <<stored, holders, sent, minted>>
  BY DEF setActiveDashboardById
<1>2. GoodList(list[t], minted) /\ \E d \in list[t] : d.id = id
  BY DEF IInv, Slices, setActiveDashboardById
<1>3. /\ Slices' /\ list'[t] = list[t] /\ activeId'[t] = id
      /\ active'[t] = deriveActive(list[t], id)
      /\ \A u \in Tabs \ {t} :
           list'[u] = list[u] /\ activeId'[u] = activeId[u] /\ active'[u] = active[u]
  BY <1>1, <1>2, NewSlice DEF IInv
<1>4. active'[t] # NoDashboard
  <2>1. active'[t] \in list[t]  BY <1>2, <1>3, Derived
  <2> QED BY <1>2, <2>1, KnownIsSome DEF GoodList
<1>5. Storage'
  <2>1. storedActive' \in Ids \cup {None}  BY <1>1, ActiveIdStored DEF IInv
  <2>2. \A u \in holders' : list'[u] = list[u]  BY <1>1, <1>3 DEF IInv, Storage
  <2>3. \A d \in sent' : Known(d, minted')  BY <1>1 DEF IInv, Storage
  <2> QED BY <1>1, <2>1, <2>2, <2>3, NothingStored DEF IInv
<1>6. Session'  BY <1>1, <1>3, <1>4, Switched DEF IInv
<1> QED BY <1>3, <1>5, <1>6 DEF IInv

\* Edit takes the snapshot of the dashboard on screen.
LEMMA EditKeeps ==
  ASSUME IInv, NEW t \in Tabs, handleEdit(t)
  PROVE  IInv'
<1>1. /\ UNCHANGED <<sent, minted, slice, page>>
      /\ UNCHANGED <<list, activeId, active, stored, storedActive, holders>>
      /\ snapshot' = [snapshot EXCEPT ![t] = Layout(t)]
      /\ snapshotOf' = [snapshotOf EXCEPT ![t] = active[t].id]
      /\ editMode' = [editMode EXCEPT ![t] = TRUE]
      /\ page[t] = "dashboard" /\ active[t] # NoDashboard
  BY DEF handleEdit, slice, storage, Shown
<1>2. Slices'  BY <1>1, SameSlice DEF IInv
<1>3. Storage'  BY <1>1 DEF IInv, Storage, GoodList, Distinct, Known, Ids
<1>4. active[t].id = activeId[t]  BY <1>1, OnScreen DEF IInv
<1>5. /\ editMode' \in [Tabs -> BOOLEAN]
      /\ \A u \in Tabs \ {t} : editMode'[u] = editMode[u]
  BY <1>1 DEF IInv, Session
<1>6. /\ snapshot' = [u \in Tabs |-> snapshot'[u]] /\ snapshotOf' = [u \in Tabs |-> snapshotOf'[u]]
      /\ \A u \in Tabs \ {t} : snapshot'[u] = snapshot[u] /\ snapshotOf'[u] = snapshotOf[u]
      /\ snapshotOf'[t] = activeId[t]
  BY <1>1, <1>4 DEF IInv, Session
<1>7. Session'  BY <1>1, <1>5, <1>6 DEF IInv, Session, NoDashboard
<1> QED BY <1>2, <1>3, <1>7 DEF IInv

\* Escape and the drafts touch neither the dashboards nor the snapshot.
LEMMA DraftKeeps ==
  ASSUME IInv, NEW t \in Tabs, UNCHANGED <<storage, sent, minted, slice, view>>,
         editMode' = [editMode EXCEPT ![t] = FALSE] \/ UNCHANGED editMode
  PROVE  IInv'
<1>1. UNCHANGED <<list, activeId, active, stored, storedActive, holders,
                  page, snapshot, snapshotOf, sent, minted>>
  BY DEF slice, storage, view
<1>2. Slices'  BY <1>1, SameSlice DEF IInv, slice
<1>3. Storage'  BY <1>1 DEF IInv, Storage, GoodList, Distinct, Known, Ids
<1>4. /\ editMode' \in [Tabs -> BOOLEAN]
      /\ \A u \in Tabs : editMode'[u] => editMode[u]
  BY DEF IInv, Session
<1>5. Session'  BY <1>1, <1>4 DEF IInv, Session, NoDashboard
<1> QED BY <1>2, <1>3, <1>5 DEF IInv

LEMMA CommitKeeps ==
  ASSUME IInv, NEW t \in Tabs, NEW p, commitDraft(t, p)
  PROVE  IInv'
<1>1. PICK layout : KeepLayout(t, layout)  BY DEF commitDraft
<1>2. Shown(t) /\ UNCHANGED <<sent, minted, editMode, view>>  BY DEF commitDraft
<1>3. /\ Slices' /\ Storage' /\ UNCHANGED activeId /\ active'[t] # NoDashboard
      /\ \A u \in Tabs \ {t} : active'[u] = active[u]
  <2>1. \A d \in sent' : Known(d, minted')  BY <1>2 DEF IInv, Storage
  <2> QED BY <1>1, <1>2, <2>1, KeepLayoutKeeps
<1>4. Session'  BY <1>2, <1>3, SameSession DEF IInv
<1> QED BY <1>3, <1>4 DEF IInv

\* Save and Discard end the session, whatever they do to the layout.
LEMMA EndKeeps ==
  ASSUME IInv, NEW t \in Tabs, Shown(t), UNCHANGED <<minted, page>>, NoSnapshot(t),
         editMode' = [editMode EXCEPT ![t] = FALSE],
         NEW layout, UNCHANGED <<storage, slice>> \/ KeepLayout(t, layout),
         \A d \in sent' : Known(d, minted')
  PROVE  IInv'
<1>1. /\ Slices' /\ Storage' /\ UNCHANGED activeId
      /\ \A u \in Tabs \ {t} : active'[u] = active[u]
  <2>1. CASE KeepLayout(t, layout)  BY <2>1, KeepLayoutKeeps
  <2>2. CASE UNCHANGED <<storage, slice>>
    <3>1. UNCHANGED <<list, activeId, active, stored, storedActive, holders>> /\ UNCHANGED slice
      BY <2>2 DEF storage, slice
    <3>2. Slices'  BY <3>1, SameSlice DEF IInv
    <3>3. Storage'  BY <3>1, NothingStored DEF IInv, Storage
    <3> QED BY <3>1, <3>2, <3>3
  <2> QED BY <2>1, <2>2
<1>2. /\ editMode' \in [Tabs -> BOOLEAN]
      /\ \A u \in Tabs \ {t} : editMode'[u] = editMode[u]
      /\ page' \in [Tabs -> {"unloaded", "elsewhere", "dashboard"}]
      /\ \A u \in Tabs \ {t} : page'[u] = page[u]
  BY DEF IInv, Session
<1>3. Session'  BY <1>1, <1>2, Ended DEF IInv
<1> QED BY <1>1, <1>3 DEF IInv

LEMMA SaveKeeps ==
  ASSUME IInv, NEW t \in Tabs, handleSave(t)
  PROVE  IInv'
<1> DEFINE layout == WithDrafts(Layout(t), drafts[t])
           saved == [active[t] EXCEPT !.layout = layout]
<1>1. /\ Shown(t) /\ UNCHANGED <<minted, page>> /\ NoSnapshot(t)
      /\ editMode' = [editMode EXCEPT ![t] = FALSE]
      /\ UNCHANGED <<storage, slice>> \/ KeepLayout(t, layout)
      /\ Send(saved)
  BY DEF handleSave
<1>2. Known(saved, minted)
  <2>1. Known(active[t], minted)  BY <1>1, OnScreen DEF IInv, Shown
  <2> HIDE DEF layout
  <2> QED BY <2>1, Changed
<1> HIDE DEF layout, saved
<1>3. \A d \in sent' : Known(d, minted')  BY <1>1, <1>2 DEF Send, IInv, Storage
<1> QED BY <1>1, <1>3, EndKeeps

LEMMA DiscardKeeps ==
  ASSUME IInv, NEW t \in Tabs, handleDiscard(t)
  PROVE  IInv'
<1>1. /\ Shown(t) /\ UNCHANGED <<minted, page, sent>> /\ NoSnapshot(t)
      /\ editMode' = [editMode EXCEPT ![t] = FALSE]
      /\ UNCHANGED <<storage, slice>> \/ KeepLayout(t, snapshot[t])
  BY DEF handleDiscard
<1>2. \A d \in sent' : Known(d, minted')  BY <1>1 DEF IInv, Storage
<1> QED BY <1>1, <1>2, EndKeeps

\* The palette and the widgets' own menus.
LEMMA PaletteKeeps ==
  ASSUME IInv, NEW t \in Tabs, NEW c, NEW at, NEW p,
         \/ addComponentToLayout(t, c) \/ insertComponentAt(t, c, at)
         \/ moveLayoutItem(t, p, at) \/ removeComponentFromLayout(t, p)
         \/ duplicateLayoutItem(t, p)
  PROVE  IInv'
<1>1. Shown(t) /\ (\E layout : StoreLayout(t, layout)) /\ UNCHANGED <<sent, editMode, view>>
  BY DEF addComponentToLayout, insertComponentAt, moveLayoutItem, removeComponentFromLayout,
         duplicateLayoutItem
<1>2. minted \subseteq minted'
  BY DEF addComponentToLayout, insertComponentAt, moveLayoutItem, removeComponentFromLayout,
         duplicateLayoutItem, Mint
<1>3. PICK layout : StoreLayout(t, layout)  BY <1>1
<1> QED BY <1>1, <1>2, <1>3, StoreLayoutKeeps

-----------------------------------------------------------------------------
(* The theorems                                                            *)

LEMMA Initially == Init => IInv
<1> SUFFICES ASSUME Init PROVE IInv  OBVIOUS
<1>1. \A t \in Tabs : list[t] = {} /\ activeId[t] = None /\ active[t] = NoDashboard  BY DEF Init
<1>2. Slices
  <2>1. deriveActive({}, None) = NoDashboard  BY Derived
  <2> QED BY <1>1, <2>1 DEF Init, Slices, GoodList, Distinct
<1>3. Storage
  <2>1. stored \in InitialStored /\ sent = {} /\ holders = {}  BY DEF Init
  <2>2. \A d \in stored : d \in Dashboard /\ d.id \notin NewDashboards
    BY <2>1, DashboardValues
  <2>3. \A d \in stored : Known(d, minted)  BY <2>2 DEF Dashboard, Known
  <2>4. Distinct(stored)  BY <2>1, DashboardValues DEF Distinct
  <2>5. storedActive \in Ids \cup {None}
    <3>1. storedActive \in IF stored = {} THEN {None} ELSE {d.id : d \in stored}  BY DEF Init
    <3> QED BY <2>3, <3>1 DEF Known
  <2> QED BY <2>1, <2>3, <2>4, <2>5 DEF Storage, GoodList
<1>4. Session  BY DEF Init, Session
<1> QED BY <1>2, <1>3, <1>4 DEF IInv

LEMMA Steps == IInv /\ [Next]_vars => IInv'
<1> SUFFICES ASSUME IInv, [Next]_vars PROVE IInv'  OBVIOUS
<1>1. CASE UNCHANGED vars
  <2>1. UNCHANGED <<list, activeId, active, stored, storedActive, holders,
                    page, snapshot, snapshotOf, sent, minted, editMode>> /\ UNCHANGED slice
    BY <1>1 DEF vars, slice, storage, view
  <2>2. Slices'  BY <2>1, SameSlice DEF IInv
  <2>3. Storage'  BY <2>1 DEF IInv, Storage, GoodList, Distinct, Known, Ids
  <2>4. Session'  BY <2>1 DEF IInv, Session, NoDashboard
  <2> QED BY <2>2, <2>3, <2>4 DEF IInv
<1>2. CASE Next
  <2>1. PICK t \in Tabs : \/ Load(t) \/ Mount(t) \/ Leave(t) \/ HydrateAnswer(t)
                         \/ SidebarStep(t) \/ SessionStep(t)
    BY <1>2 DEF Next
  <2>2. CASE Load(t)  BY <2>2, LoadKeeps
  <2>3. CASE Mount(t) \/ Leave(t)  BY <2>3, PageKeeps
  <2>4. CASE HydrateAnswer(t)  BY <2>4, HydrateKeeps
  <2>5. CASE SidebarStep(t)
    <3>1. ASSUME NEW name, createDashboard(t, name) PROVE IInv'  BY <3>1, CreateKeeps
    <3>2. ASSUME NEW id, NEW name, renameDashboard(t, id, name) PROVE IInv'  BY <3>2, RenameKeeps
    <3>3. ASSUME NEW id, deleteDashboard(t, id) PROVE IInv'  BY <3>3, DeleteKeeps
    <3>4. ASSUME NEW id, duplicateDashboard(t, id) PROVE IInv'  BY <3>4, DuplicateKeeps
    <3>5. ASSUME NEW id \in Ids, setActiveDashboardById(t, id) PROVE IInv'  BY <3>5, SwitchKeeps
    <3> QED BY <2>5, <3>1, <3>2, <3>3, <3>4, <3>5 DEF SidebarStep
  <2>6. CASE SessionStep(t)
    <3>1. ASSUME handleEdit(t) PROVE IInv'  BY <3>1, EditKeeps
    <3>2. ASSUME Escape(t) PROVE IInv'  BY <3>2, DraftKeeps DEF Escape
    <3>3. ASSUME handleSave(t) PROVE IInv'  BY <3>3, SaveKeeps
    <3>4. ASSUME handleDiscard(t) PROVE IInv'  BY <3>4, DiscardKeeps
    <3>5. ASSUME NEW c, NEW at, NEW p,
                 \/ addComponentToLayout(t, c) \/ insertComponentAt(t, c, at)
                 \/ moveLayoutItem(t, p, at) \/ removeComponentFromLayout(t, p)
                 \/ duplicateLayoutItem(t, p)
          PROVE  IInv'
      BY <3>5, PaletteKeeps
    <3>6. ASSUME NEW p, discardDraft(t, p) PROVE IInv'  BY <3>6, DraftKeeps DEF discardDraft
    <3>7. ASSUME NEW p, commitDraft(t, p) PROVE IInv'  BY <3>7, CommitKeeps
    <3>8. ASSUME NEW p, NEW config, setDraftConfig(t, p, config) PROVE IInv'
      BY <3>8, DraftKeeps DEF setDraftConfig
    <3> QED BY <2>6, <3>1, <3>2, <3>3, <3>4, <3>5, <3>6, <3>7, <3>8 DEF SessionStep
  <2> QED BY <2>1, <2>2, <2>3, <2>4, <2>5, <2>6
<1> QED BY <1>1, <1>2

\* The inductive invariant holds in every behaviour.
THEOREM Inductive == Spec => []IInv
BY Initially, Steps, PTL DEF Spec

\* In every tab the dashboard on screen is the list's entry of the active id, and
\* ids are unique, whatever the tabs and the operations (dashboardSlice.ts).
THEOREM ShownIsListed == Spec => []ActiveIsListed
<1>1. IInv => ActiveIsListed  BY DEF IInv, Slices, ActiveIsListed, GoodList, Distinct
<1> QED BY <1>1, Inductive, PTL

\* An edit session that still has a snapshot has one of the dashboard on screen, so
\* Discard never restores another dashboard's layout (DashboardView.tsx).
THEOREM DiscardRestoresShown == Spec => []SnapshotOfShown
<1>1. IInv => SnapshotOfShown
  <2> SUFFICES ASSUME IInv, NEW t \in Tabs, Shown(t), editMode[t], snapshot[t] # None
               PROVE  snapshotOf[t] = active[t].id
    BY DEF SnapshotOfShown
  <2>1. active[t] # NoDashboard /\ snapshotOf[t] = activeId[t]  BY DEF IInv, Session
  <2> QED BY <2>1, OnScreen DEF IInv
<1> QED BY <1>1, Inductive, PTL

\* localStorage holds the list of the tab that stored last or loaded since, for any
\* number of tabs and a storage that may be full (dashboardService.ts).
THEOREM StorageIsShown == Spec => []StoredIsShown
<1>1. IInv => StoredIsShown  BY DEF IInv, Storage, StoredIsShown
<1> QED BY <1>1, Inductive, PTL

\* The two together, as the run checks them.
THEOREM SliceStaysInStep == Spec => []SliceInStep
BY ShownIsListed, StorageIsShown, PTL DEF SliceInStep

-----------------------------------------------------------------------------
(* Layouts: what filter keeps, and an entry put in, taken out or moved       *)

\* What holds at 0, and one place further whenever it holds at a place, holds at all.
LEMMA Upwards ==
  ASSUME NEW n \in Nat, NEW G, 0 \in G, \A k \in 0..n : k < n /\ k \in G => k + 1 \in G
  PROVE  0..n \subseteq G
<1> SUFFICES ASSUME NEW j \in 0..n, j \notin G PROVE FALSE  OBVIOUS
<1> DEFINE B == {k \in 0..n : k \notin G}
<1>1. B \subseteq Nat /\ B # {}  OBVIOUS
<1>2. PICK x \in B : \A y \in B : ~(<<y, x>> \in OpToRel(<, Nat))
  BY <1>1, WFMin, NatLessThanWellFounded
<1>3. \A y \in B : ~(y < x)  BY <1>1, <1>2 DEF OpToRel
<1>4. x \in 0..n /\ x \notin G /\ x # 0  BY <1>2
<1>5. x - 1 \in 0..n /\ x - 1 < n /\ x - 1 \notin B  BY <1>3, <1>4
<1>6. x - 1 + 1 \in G  BY <1>5
<1> QED BY <1>4, <1>6

\* The recursion behind filter.
Step(F, layout, kept, k) ==
  IF k = 0 THEN <<>> ELSE IF layout[k] \in kept THEN Append(F[k - 1], layout[k]) ELSE F[k - 1]
Filters(F, layout, kept, n) == F = [k \in 0..n |-> Step(F, layout, kept, k)]

LEMMA FilterUnfolds ==
  ASSUME NEW s, NEW kept, Len(s) \in Nat
  PROVE  \E F : Filters(F, s, kept, Len(s)) /\ filter(s, kept) = F[Len(s)]
<1> DEFINE G == {n \in Nat : \E F : Filters(F, s, kept, n)}
<1>1. 0 \in G
  <2> DEFINE F == [k \in 0..0 |-> <<>>]
  <2>1. Filters(F, s, kept, 0)  BY DEF Filters, Step
  <2> QED BY <2>1
<1>2. ASSUME NEW n \in 0..Len(s), n \in G PROVE n + 1 \in G
  <2>1. PICK F : Filters(F, s, kept, n)  BY <1>2
  <2> DEFINE H == [k \in 0..(n + 1) |-> IF k = n + 1 THEN Step(F, s, kept, k) ELSE F[k]]
  <2>2. F = [k \in 0..n |-> Step(F, s, kept, k)]  BY <2>1 DEF Filters
  <2>3. ASSUME NEW k \in 0..(n + 1) PROVE H[k] = Step(H, s, kept, k)
    <3>1. CASE k = n + 1
      <4>1. H[k] = Step(F, s, kept, k)  BY <3>1
      <4>2. H[k - 1] = F[k - 1]  BY <3>1
      <4> HIDE DEF H
      <4> QED BY <4>1, <4>2 DEF Step
    <3>2. CASE k # n + 1
      <4>1. k \in 0..n  BY <3>2
      <4>2. H[k] = F[k] /\ F[k] = Step(F, s, kept, k)  BY <2>2, <3>2, <4>1
      <4>3. k # 0 => H[k - 1] = F[k - 1]  BY <4>1
      <4> HIDE DEF H
      <4> QED BY <4>2, <4>3 DEF Step
    <3> QED BY <3>1, <3>2
  <2>4. Filters(H, s, kept, n + 1)
    <3>1. H = [k \in 0..(n + 1) |-> H[k]]  OBVIOUS
    <3> HIDE DEF H
    <3> QED BY <2>3, <3>1 DEF Filters
  <2> HIDE DEF H
  <2> QED BY <2>4
<1> HIDE DEF G
<1>3. Len(s) \in G
  <2>1. \A k \in 0..Len(s) : k < Len(s) /\ k \in G => k + 1 \in G  BY <1>2
  <2>2. 0..Len(s) \subseteq G  BY <1>1, <2>1, Upwards
  <2> QED BY <2>2
<1>4. \E F : Filters(F, s, kept, Len(s))  BY <1>3 DEF G
<1>5. filter(s, kept) = (CHOOSE F : Filters(F, s, kept, Len(s)))[Len(s)]
  BY DEF filter, Filters, Step
<1> QED BY <1>4, <1>5

\* Its steps, from a place to the next.
LEMMA FilterSteps ==
  ASSUME NEW F, NEW s, NEW kept, Len(s) \in Nat, Filters(F, s, kept, Len(s))
  PROVE  /\ F[0] = <<>>
         /\ \A k \in 0..Len(s) : k < Len(s) =>
              F[k + 1] = IF s[k + 1] \in kept THEN Append(F[k], s[k + 1]) ELSE F[k]
<1>1. F = [k \in 0..Len(s) |-> Step(F, s, kept, k)]  BY DEF Filters
<1>2. F[0] = Step(F, s, kept, 0)  BY <1>1
<1>3. ASSUME NEW k \in 0..Len(s), k < Len(s)
      PROVE  F[k + 1] = IF s[k + 1] \in kept THEN Append(F[k], s[k + 1]) ELSE F[k]
  <2>1. k + 1 \in 0..Len(s)  BY <1>3
  <2>2. F[k + 1] = Step(F, s, kept, k + 1)  BY <1>1, <2>1
  <2>3. k + 1 # 0 /\ (k + 1) - 1 = k  BY <1>3
  <2> QED BY <2>2, <2>3 DEF Step
<1> QED BY <1>2, <1>3 DEF Step

\* What is kept of a layout is a layout of kept entries.
LEMMA FilterTyped ==
  ASSUME NEW S, NEW s \in Seq(S), NEW kept
  PROVE  filter(s, kept) \in Seq(S \cap kept)
<1>1. PICK F : Filters(F, s, kept, Len(s)) /\ filter(s, kept) = F[Len(s)]  BY FilterUnfolds
<1> DEFINE G == {k \in 0..Len(s) : F[k] \in Seq(S \cap kept)}
<1>6. /\ F[0] = <<>>
      /\ \A k \in 0..Len(s) : k < Len(s) =>
           F[k + 1] = IF s[k + 1] \in kept THEN Append(F[k], s[k + 1]) ELSE F[k]
  <2>1. Len(s) \in Nat  OBVIOUS
  <2> QED BY <1>1, <2>1, FilterSteps
<1>2. 0 \in G
  <2>1. 0 \in 0..Len(s) /\ <<>> \in Seq(S \cap kept)  OBVIOUS
  <2> QED BY <1>6, <2>1
<1>3. ASSUME NEW k \in 0..Len(s), k < Len(s), k \in G PROVE k + 1 \in G
  <2>1. F[k + 1] = IF s[k + 1] \in kept THEN Append(F[k], s[k + 1]) ELSE F[k]
    BY <1>3, <1>6
  <2>2. s[k + 1] \in S /\ k + 1 \in 0..Len(s)  BY <1>3
  <2>3. F[k + 1] \in Seq(S \cap kept)
    <3>1. CASE s[k + 1] \in kept
      <4>1. s[k + 1] \in S \cap kept  BY <2>2, <3>1
      <4>2. F[k] \in Seq(S \cap kept)  BY <1>3
      <4>3. Append(F[k], s[k + 1]) \in Seq(S \cap kept)  BY <4>1, <4>2
      <4> QED BY <2>1, <3>1, <4>3
    <3>2. CASE s[k + 1] \notin kept  BY <1>3, <2>1, <3>2
    <3> QED BY <3>1, <3>2
  <2> QED BY <2>2, <2>3
<1> HIDE DEF G
<1>4. \A k \in 0..Len(s) : k < Len(s) /\ k \in G => k + 1 \in G  BY <1>3
<1>5. 0..Len(s) \subseteq G
  <2>1. Len(s) \in Nat  OBVIOUS
  <2> QED BY ONLY <1>2, <1>4, <2>1, Upwards
<1>7. Len(s) \in 0..Len(s)  OBVIOUS
<1>8. Len(s) \in G  BY <1>5, <1>7
<1> QED BY <1>1, <1>8 DEF G

\* What is kept of two layouts in a row is what is kept of each.
LEMMA FilterConcat ==
  ASSUME NEW S, NEW a \in Seq(S), NEW b \in Seq(S), NEW kept
  PROVE  filter(a \o b, kept) = filter(a, kept) \o filter(b, kept)
<1> DEFINE c == a \o b
<1>0. Len(c) = Len(a) + Len(b) /\ c \in Seq(S)  OBVIOUS
<1>00. /\ \A k \in 1..Len(a) : c[k] = a[k]
       /\ \A k \in 1..Len(b) : c[Len(a) + k] = b[k]
  OBVIOUS
<1>12. \A u, v \in Seq(S), w \in S : Append(u \o v, w) = u \o Append(v, w)
  <2> SUFFICES ASSUME NEW u \in Seq(S), NEW v \in Seq(S), NEW w \in S
               PROVE  Append(u \o v, w) = u \o Append(v, w)
    OBVIOUS
  <2> DEFINE z == <<w>>
  <2>1. u \in Seq(S) /\ v \in Seq(S) /\ z \in Seq(S)  OBVIOUS
  <2>2. Append(u \o v, w) = (u \o v) \o z /\ Append(v, w) = v \o z
    BY AppendIsConcat
  <2> HIDE DEF z
  <2>3. (u \o v) \o z = u \o (v \o z)  BY ONLY <2>1
  <2> QED BY <2>2, <2>3
<1> HIDE DEF c
<1>1. PICK F : Filters(F, a, kept, Len(a)) /\ filter(a, kept) = F[Len(a)]  BY FilterUnfolds
<1>2. PICK H : Filters(H, b, kept, Len(b)) /\ filter(b, kept) = H[Len(b)]  BY FilterUnfolds
<1>3. PICK K : Filters(K, c, kept, Len(c)) /\ filter(c, kept) = K[Len(c)]  BY <1>0, FilterUnfolds
<1>8. /\ F[0] = <<>>
      /\ \A k \in 0..Len(a) : k < Len(a) =>
           F[k + 1] = IF a[k + 1] \in kept THEN Append(F[k], a[k + 1]) ELSE F[k]
  <2>1. Len(a) \in Nat  OBVIOUS
  <2> QED BY <1>1, <2>1, FilterSteps
<1>9. /\ H[0] = <<>>
      /\ \A k \in 0..Len(b) : k < Len(b) =>
           H[k + 1] = IF b[k + 1] \in kept THEN Append(H[k], b[k + 1]) ELSE H[k]
  <2>1. Len(b) \in Nat  OBVIOUS
  <2> QED BY <1>2, <2>1, FilterSteps
<1>10. /\ K[0] = <<>>
       /\ \A k \in 0..Len(c) : k < Len(c) =>
            K[k + 1] = IF c[k + 1] \in kept THEN Append(K[k], c[k + 1]) ELSE K[k]
  <2>1. Len(c) \in Nat  BY <1>0
  <2> QED BY <1>3, <2>1, FilterSteps
<1>11. Len(a) \in Nat /\ Len(b) \in Nat  OBVIOUS
<1> DEFINE G == {k \in 0..Len(a) : K[k] = F[k] /\ F[k] \in Seq(S)}
<1>4. 0..Len(a) \subseteq G
  <2>1. 0 \in G
    <3>1. 0 \in 0..Len(a) /\ <<>> \in Seq(S)  OBVIOUS
    <3> QED BY <1>8, <1>10, <3>1
  <2>2. ASSUME NEW k \in 0..Len(a), k < Len(a), k \in G PROVE k + 1 \in G
    <3>1. F[k + 1] = IF a[k + 1] \in kept THEN Append(F[k], a[k + 1]) ELSE F[k]
      BY <1>8, <2>2
    <3>2. k \in 0..Len(c) /\ k < Len(c)  BY <1>0, <2>2
    <3>3. K[k + 1] = IF c[k + 1] \in kept THEN Append(K[k], c[k + 1]) ELSE K[k]
      BY <1>10, <3>2
    <3>4. k + 1 \in 1..Len(a) /\ c[k + 1] = a[k + 1] /\ a[k + 1] \in S  BY <1>00, <2>2
    <3>5. K[k] = F[k] /\ F[k] \in Seq(S)  BY <2>2
    <3>6. F[k + 1] \in Seq(S)
      <4>1. CASE a[k + 1] \in kept
        <5>1. Append(F[k], a[k + 1]) \in Seq(S)  BY <3>4, <3>5
        <5> QED BY <3>1, <4>1, <5>1
      <4>2. CASE a[k + 1] \notin kept  BY <3>1, <3>5, <4>2
      <4> QED BY <4>1, <4>2
    <3>7. K[k + 1] = F[k + 1]  BY <3>1, <3>3, <3>4, <3>5
    <3>8. k + 1 \in 0..Len(a)  BY <3>4
    <3> QED BY <3>6, <3>7, <3>8
  <2> HIDE DEF G
  <2>3. \A k \in 0..Len(a) : k < Len(a) /\ k \in G => k + 1 \in G  BY <2>2
  <2> QED BY <1>11, <2>1, <2>3, Upwards
<1>5. K[Len(a)] = F[Len(a)] /\ F[Len(a)] \in Seq(S)
  <2>1. Len(a) \in G  BY <1>4, <1>11
  <2> QED BY <2>1
<1> DEFINE J == {k \in 0..Len(b) : K[Len(a) + k] = F[Len(a)] \o H[k] /\ H[k] \in Seq(S)}
<1>6. 0..Len(b) \subseteq J
  <2>1. 0 \in J
    <3>1. F[Len(a)] \o <<>> = F[Len(a)]  BY <1>5, ConcatEmptySeq
    <3>2. Len(a) + 0 = Len(a) /\ 0 \in 0..Len(b) /\ <<>> \in Seq(S)  BY <1>11
    <3> QED BY <1>5, <1>9, <3>1, <3>2
  <2>2. ASSUME NEW k \in 0..Len(b), k < Len(b), k \in J PROVE k + 1 \in J
    <3>1. H[k + 1] = IF b[k + 1] \in kept THEN Append(H[k], b[k + 1]) ELSE H[k]
      BY <1>9, <2>2
    <3>2. Len(a) + k \in 0..Len(c) /\ Len(a) + k < Len(c)  BY <1>0, <2>2
    <3>3. K[(Len(a) + k) + 1] = IF c[(Len(a) + k) + 1] \in kept
                                THEN Append(K[Len(a) + k], c[(Len(a) + k) + 1]) ELSE K[Len(a) + k]
      BY <1>10, <3>2
    <3>4. (Len(a) + k) + 1 = Len(a) + (k + 1)  BY <2>2
    <3>5. k + 1 \in 1..Len(b) /\ c[Len(a) + (k + 1)] = b[k + 1] /\ b[k + 1] \in S  BY <1>00, <2>2
    <3>6. K[Len(a) + k] = F[Len(a)] \o H[k] /\ H[k] \in Seq(S)  BY <2>2
    <3>7. Append(F[Len(a)] \o H[k], b[k + 1]) = F[Len(a)] \o Append(H[k], b[k + 1])
      <4> DEFINE x == F[Len(a)]
                 y == H[k]
                 e == b[k + 1]
      <4>1. x \in Seq(S) /\ y \in Seq(S) /\ e \in S  BY <1>5, <3>5, <3>6
      <4> HIDE DEF x, y, e
      <4>2. Append(x \o y, e) = x \o Append(y, e)  BY ONLY <4>1, <1>12
      <4> QED BY <4>2 DEF x, y, e
    <3>8. H[k + 1] \in Seq(S)
      <4>1. CASE b[k + 1] \in kept
        <5>1. Append(H[k], b[k + 1]) \in Seq(S)  BY <3>5, <3>6
        <5> QED BY <3>1, <4>1, <5>1
      <4>2. CASE b[k + 1] \notin kept  BY <3>1, <3>6, <4>2
      <4> QED BY <4>1, <4>2
    <3>9. K[Len(a) + (k + 1)] = F[Len(a)] \o H[k + 1]
      BY <3>1, <3>3, <3>4, <3>5, <3>6, <3>7
    <3>10. k + 1 \in 0..Len(b)  BY <3>5
    <3> QED BY <3>8, <3>9, <3>10
  <2> HIDE DEF J
  <2>3. \A k \in 0..Len(b) : k < Len(b) /\ k \in J => k + 1 \in J  BY <2>2
  <2> QED BY <1>11, <2>1, <2>3, Upwards
<1>7. K[Len(a) + Len(b)] = F[Len(a)] \o H[Len(b)]
  <2>1. Len(b) \in 0..Len(b)  BY <1>11
  <2>2. Len(b) \in J
    <3> HIDE DEF J
    <3> QED BY <1>6, <2>1
  <2> QED BY <2>2
<1> QED BY <1>0, <1>1, <1>2, <1>3, <1>7 DEF c

\* A layout of one entry is kept or not.
LEMMA FilterOne ==
  ASSUME NEW x, NEW kept
  PROVE  filter(<<x>>, kept) = IF x \in kept THEN <<x>> ELSE <<>>
<1> DEFINE s == <<x>>
<1>1. Len(s) = 1 /\ s[1] = x  OBVIOUS
<1> HIDE DEF s
<1>5. Len(s) \in Nat  BY <1>1
<1>2. PICK F : Filters(F, s, kept, Len(s)) /\ filter(s, kept) = F[Len(s)]  BY <1>5, FilterUnfolds
<1>6. /\ F[0] = <<>>
      /\ \A k \in 0..Len(s) : k < Len(s) =>
           F[k + 1] = IF s[k + 1] \in kept THEN Append(F[k], s[k + 1]) ELSE F[k]
  BY <1>2, <1>5, FilterSteps
<1>3. F[0] = <<>> /\ F[1] = IF s[1] \in kept THEN Append(F[0], s[1]) ELSE F[0]
  <2> DEFINE z == 0
  <2>1. z \in 0..Len(s) /\ z < Len(s) /\ z + 1 = 1  BY <1>1
  <2> HIDE DEF z
  <2>2. F[z + 1] = IF s[z + 1] \in kept THEN Append(F[z], s[z + 1]) ELSE F[z]  BY <1>6, <2>1
  <2>3. F[1] = IF s[1] \in kept THEN Append(F[z], s[1]) ELSE F[z]  BY <2>1, <2>2
  <2> QED BY <1>6, <2>3 DEF z
<1>4. Append(<<>>, x) = <<x>>  OBVIOUS
<1> QED BY <1>1, <1>2, <1>3, <1>4 DEF s

\* A list with an entry put in, and with one taken out.
HasInserted(n, S, r, c, x) ==
  /\ n \in Seq(S) /\ Len(n) = Len(r) + 1
  /\ \A i \in 1..c : n[i] = r[i]
  /\ n[c + 1] = x
  /\ \A i \in (c + 1)..Len(r) : n[i + 1] = r[i]

LEMMA Inserted ==
  ASSUME NEW S, NEW r \in Seq(S), NEW c \in 0..Len(r), NEW x \in S
  PROVE  HasInserted(Insert(r, c, x), S, r, c, x)
<1> DEFINE a == SubSeq(r, 1, c)
           b == SubSeq(r, c + 1, Len(r))
<1>1. Len(r) \in Nat /\ \A i \in 1..Len(r) : r[i] \in S  OBVIOUS
<1>2. a \in Seq(S) /\ Len(a) = c /\ \A i \in 1..c : a[i] = r[i]  BY <1>1
<1>3. b \in Seq(S) /\ Len(b) = Len(r) - c /\ \A i \in 1..(Len(r) - c) : b[i] = r[c + i]
  BY <1>1
<1>4. <<x>> \in Seq(S) /\ Len(<<x>>) = 1  OBVIOUS
<1>5. Insert(r, c, x) = (a \o <<x>>) \o b  BY DEF Insert
<1> HIDE DEF a, b
<1> DEFINE m == a \o <<x>>
<1>6. m \in Seq(S) /\ Len(m) = c + 1 /\ m[c + 1] = x /\ \A i \in 1..c : m[i] = r[i]
  BY <1>2, <1>4
<1> HIDE DEF m
<1>7. /\ m \o b \in Seq(S) /\ Len(m \o b) = Len(m) + Len(b)
      /\ \A i \in 1..(Len(m) + Len(b)) : (m \o b)[i] = IF i <= Len(m) THEN m[i] ELSE b[i - Len(m)]
  BY <1>3, <1>6, ConcatProperties
<1> DEFINE n == m \o b
<1>8. Insert(r, c, x) = n  BY <1>5 DEF m
<1>9. /\ n \in Seq(S) /\ Len(n) = Len(r) + 1
      /\ \A i \in 1..(Len(r) + 1) : n[i] = IF i <= c + 1 THEN m[i] ELSE b[i - (c + 1)]
  BY <1>1, <1>3, <1>6, <1>7
<1> HIDE DEF n
<1>10. ASSUME NEW i \in 1..c PROVE n[i] = r[i]
  <2>1. i \in 1..(Len(r) + 1) /\ i <= c + 1  BY <1>1
  <2> QED BY <1>6, <1>9, <2>1
<1>11. n[c + 1] = x
  <2>1. c + 1 \in 1..(Len(r) + 1)  BY <1>1
  <2> QED BY <1>6, <1>9, <2>1
<1>12. ASSUME NEW i \in (c + 1)..Len(r) PROVE n[i + 1] = r[i]
  <2>1. i + 1 \in 1..(Len(r) + 1) /\ ~(i + 1 <= c + 1) /\ i - c \in 1..(Len(r) - c)
        /\ (i + 1) - (c + 1) = i - c /\ c + (i - c) = i
    BY <1>1
  <2>2. n[i + 1] = b[i - c]  BY <1>9, <2>1
  <2> QED BY <1>3, <2>1, <2>2
<1> QED BY <1>8, <1>9, <1>10, <1>11, <1>12 DEF HasInserted

HasLost(r, S, s, k) ==
  /\ r \in Seq(S) /\ Len(r) = Len(s) - 1
  /\ \A i \in 1..(k - 1) : r[i] = s[i]
  /\ \A i \in k..(Len(s) - 1) : r[i] = s[i + 1]
  /\ s = Insert(r, k - 1, s[k])

LEMMA TakenOut ==
  ASSUME NEW S, NEW s \in Seq(S), NEW k \in 1..Len(s)
  PROVE  HasLost(Without(s, k - 1), S, s, k)
<1> DEFINE a == SubSeq(s, 1, k - 1)
           b == SubSeq(s, k + 1, Len(s))
           r == a \o b
<1>1. Len(s) \in Nat /\ \A i \in 1..Len(s) : s[i] \in S  OBVIOUS
<1>2. a \in Seq(S) /\ Len(a) = k - 1 /\ \A i \in 1..(k - 1) : a[i] = s[i]  BY <1>1
<1>3. b \in Seq(S) /\ Len(b) = Len(s) - k /\ \A i \in 1..(Len(s) - k) : b[i] = s[k + i]
  BY <1>1
<1>4. Without(s, k - 1) = r
  <2>1. k - 1 + 2 = k + 1  OBVIOUS
  <2> QED BY <2>1 DEF Without
<1> HIDE DEF a, b
<1>5. /\ r \in Seq(S) /\ Len(r) = Len(a) + Len(b)
      /\ \A i \in 1..(Len(a) + Len(b)) : r[i] = IF i <= Len(a) THEN a[i] ELSE b[i - Len(a)]
  BY <1>2, <1>3, ConcatProperties
<1> HIDE DEF r
<1>6. Len(r) = Len(s) - 1  BY <1>1, <1>2, <1>3, <1>5
<1>7. ASSUME NEW i \in 1..(k - 1) PROVE r[i] = s[i]
  <2>1. i \in 1..(Len(a) + Len(b)) /\ i <= Len(a)  BY <1>1, <1>2, <1>3
  <2> QED BY <1>2, <1>5, <2>1
<1>8. ASSUME NEW i \in k..(Len(s) - 1) PROVE r[i] = s[i + 1]
  <2>1. i \in 1..(Len(a) + Len(b)) /\ ~(i <= Len(a)) /\ i - Len(a) = i - k + 1
        /\ i - k + 1 \in 1..(Len(s) - k) /\ k + (i - k + 1) = i + 1
    BY <1>1, <1>2, <1>3
  <2> QED BY <1>3, <1>5, <2>1
<1> DEFINE c == k - 1
           x == s[k]
           n == Insert(r, c, x)
<1>9. s = n
  <2>1. c \in 0..Len(r) /\ x \in S  BY <1>1, <1>6
  <2> HIDE DEF c, x
  <2>2. /\ n \in Seq(S) /\ Len(n) = Len(r) + 1
        /\ \A i \in 1..c : n[i] = r[i]
        /\ n[c + 1] = x
        /\ \A i \in (c + 1)..Len(r) : n[i + 1] = r[i]
    <3>1. r \in Seq(S) /\ c \in 0..Len(r) /\ x \in S  BY <1>5, <2>1
    <3>2. HasInserted(n, S, r, c, x)  BY ONLY <3>1, Inserted
    <3> QED BY <3>2 DEF HasInserted
  <2> HIDE DEF n
  <2>3. ASSUME NEW i \in 1..Len(s) PROVE s[i] = n[i]
    <3>1. CASE i < k  BY <1>7, <2>2, <3>1 DEF c
    <3>2. CASE i = k  BY <2>2, <3>2 DEF c, x
    <3>3. CASE i > k
      <4>1. i - 1 \in k..(Len(s) - 1) /\ (i - 1) + 1 = i /\ c + 1 = k  BY <1>1, <3>3 DEF c
      <4>2. r[i - 1] = s[i]  BY <1>8, <4>1
      <4>3. i - 1 \in (c + 1)..Len(r)  BY <1>6, <4>1
      <4>4. n[(i - 1) + 1] = r[i - 1]  BY <2>2, <4>3
      <4> QED BY <4>1, <4>2, <4>4
    <3> QED BY <3>1, <3>2, <3>3
  <2>4. Len(s) = Len(n)  BY <1>1, <1>6, <2>2
  <2> QED BY <2>2, <2>3, <2>4, SeqEqual
<1> QED BY <1>4, <1>5, <1>6, <1>7, <1>8, <1>9 DEF n, c, x, HasLost

\* An entry that is not kept may stand anywhere.
LEMMA FilterInserted ==
  ASSUME NEW S, NEW r \in Seq(S), NEW c \in 0..Len(r), NEW x \in S, NEW kept, x \notin kept
  PROVE  filter(Insert(r, c, x), kept) = filter(r, kept)
<1> DEFINE a == SubSeq(r, 1, c)
           b == SubSeq(r, c + 1, Len(r))
           e == <<x>>
           m == a \o e
<1>1. Insert(r, c, x) = m \o b  BY DEF Insert
<1>2. a \in Seq(S) /\ b \in Seq(S) /\ e \in Seq(S)  OBVIOUS
<1>3. r = a \o b
  <2> DEFINE one == 1
             n == Len(r)
  <2>2. one \in 1..(Len(r) + 1) /\ c \in (one - 1)..Len(r) /\ n \in c..Len(r)  OBVIOUS
  <2> HIDE DEF one, n, a, b, m, e
  <2>3. SubSeq(r, one, c) \o SubSeq(r, c + 1, n) = SubSeq(r, one, n)
    BY <2>2, ConcatAdjacentSubSeq
  <2>1. a \o b = SubSeq(r, 1, Len(r))  BY <2>3 DEF a, b, one, n
  <2> QED BY <2>1, SubSeqFull
<1>4. filter(e, kept) = <<>>  BY FilterOne
<1> HIDE DEF a, b, e
<1>5. m \in Seq(S)  BY <1>2
<1>6. filter(m, kept) = filter(a, kept) \o filter(e, kept)
  <2>1. a \in Seq(S) /\ e \in Seq(S)  BY <1>2
  <2> QED BY ONLY <2>1, FilterConcat DEF m
<1>7. filter(a, kept) \in Seq(S \cap kept)  BY <1>2, FilterTyped
<1>8. filter(m, kept) = filter(a, kept)  BY <1>4, <1>6, <1>7, ConcatEmptySeq
<1> HIDE DEF m
<1>9. filter(m \o b, kept) = filter(m, kept) \o filter(b, kept)
  <2>1. m \in Seq(S) /\ b \in Seq(S)  BY <1>2, <1>5
  <2> QED BY ONLY <2>1, FilterConcat
<1>10. filter(a \o b, kept) = filter(a, kept) \o filter(b, kept)
  <2>1. a \in Seq(S) /\ b \in Seq(S)  BY <1>2
  <2> QED BY ONLY <2>1, FilterConcat
<1> QED BY <1>1, <1>3, <1>8, <1>9, <1>10

\* A widget moved from place k to place to, counted from 0, lands before what was
\* there, or at the end, and the others keep their order.
HasMoved(after, S, s, k, to, kept) ==
  /\ after \in Seq(S) /\ Len(after) = Len(s)
  /\ filter(after, kept) = filter(s, kept)
  /\ to >= Len(s) => after[Len(s)] = s[k]
  /\ to < Len(s) /\ after # s =>
       \E j \in 1..(Len(s) - 1) : after[j] = s[k] /\ after[j + 1] = s[to + 1]

LEMMA MovedLands ==
  ASSUME NEW S, NEW s \in Seq(S), NEW k \in 1..Len(s), NEW to \in Nat,
         NEW kept, s[k] \notin kept
  PROVE  HasMoved(Moved(s, k - 1, to), S, s, k, to, kept)
<1> DEFINE r == Without(s, k - 1)
           x == s[k]
           adjusted == IF k - 1 < to THEN to - 1 ELSE to
           c == IF adjusted > Len(r) THEN Len(r) ELSE adjusted
           n == Insert(r, c, x)
<1>1. Moved(s, k - 1, to) = n
  <2>1. (k - 1) + 1 = k  OBVIOUS
  <2> QED BY <2>1 DEF Moved, Clamp
<1>2. HasLost(r, S, s, k)  BY TakenOut
<1> HIDE DEF r
<1>3. Len(s) \in Nat /\ x \in S /\ Len(r) = Len(s) - 1 /\ r \in Seq(S)  BY <1>2 DEF HasLost
<1>4. c \in 0..Len(r) /\ k - 1 \in 0..Len(r)  BY <1>3
<1>5. /\ k - 1 < to => c = IF to - 1 > Len(r) THEN Len(r) ELSE to - 1
      /\ ~(k - 1 < to) => c = to
  BY <1>3
<1> DEFINE l == k - 1
<1>6. s = Insert(r, l, x) /\ l \in 0..Len(r)  BY <1>2, <1>4 DEF HasLost
<1> HIDE DEF c, x, n, l
<1>7. HasInserted(n, S, r, c, x)
  <2>1. r \in Seq(S) /\ c \in 0..Len(r) /\ x \in S  BY <1>3, <1>4
  <2>2. HasInserted(Insert(r, c, x), S, r, c, x)  BY ONLY <2>1, Inserted
  <2> QED BY <2>2 DEF n
<1>8. /\ n \in Seq(S) /\ Len(n) = Len(s)
      /\ \A i \in 1..c : n[i] = r[i]
      /\ n[c + 1] = x
      /\ \A i \in (c + 1)..Len(r) : n[i + 1] = r[i]
  BY <1>3, <1>7 DEF HasInserted
<1>9. filter(n, kept) = filter(s, kept)
  <2>1. r \in Seq(S) /\ c \in 0..Len(r) /\ l \in 0..Len(r) /\ x \in S /\ x \notin kept
    BY <1>3, <1>4, <1>6 DEF x
  <2>2. filter(Insert(r, c, x), kept) = filter(r, kept)  BY ONLY <2>1, FilterInserted
  <2>3. filter(Insert(r, l, x), kept) = filter(r, kept)  BY ONLY <2>1, FilterInserted
  <2> QED BY <1>6, <2>2, <2>3 DEF n
<1>10. ASSUME to >= Len(s) PROVE n[Len(s)] = x
  <2>1. c = Len(r)  BY <1>3, <1>5, <1>10
  <2>2. c + 1 = Len(s)  BY <1>3, <2>1
  <2> QED BY <1>8, <2>2
<1>11. ASSUME to < Len(s), n # s
       PROVE  \E j \in 1..(Len(s) - 1) : n[j] = x /\ n[j + 1] = s[to + 1]
  <2>1. CASE k - 1 < to
    <3>1. c = to - 1 /\ to \in 1..(Len(s) - 1) /\ to \in k..(Len(s) - 1) /\ c + 1 = to
          /\ to \in (c + 1)..Len(r)
      BY <1>3, <1>5, <1>11, <2>1
    <3>2. n[to] = x /\ n[to + 1] = r[to]  BY <1>8, <3>1
    <3>3. r[to] = s[to + 1]  BY <1>2, <3>1 DEF HasLost
    <3> QED BY <3>1, <3>2, <3>3
  <2>2. CASE k - 1 = to
    <3>1. c = l  BY <1>5, <2>2 DEF l
    <3> QED BY <1>6, <1>11, <3>1 DEF n
  <2>3. CASE to < k - 1
    <3>1. c = to /\ to + 1 \in 1..(k - 1) /\ to + 1 \in 1..(Len(s) - 1)
          /\ to + 1 \in (c + 1)..Len(r)
      BY <1>3, <1>5, <2>3
    <3>2. n[to + 1] = x /\ n[(to + 1) + 1] = r[to + 1]  BY <1>8, <3>1
    <3>3. r[to + 1] = s[to + 1]  BY <1>2, <3>1 DEF HasLost
    <3> QED BY <3>1, <3>2, <3>3
  <2> QED BY <2>1, <2>2, <2>3
<1>12. HasMoved(n, S, s, k, to, kept)  BY <1>8, <1>9, <1>10, <1>11 DEF HasMoved, x
<1> QED BY <1>1, <1>12

-----------------------------------------------------------------------------
(* Types                                                                   *)

\* The types, by the parts of a browser that the operations change together.
SliceTyped ==
  /\ list \in [Tabs -> SUBSET Dashboard]
  /\ activeId \in [Tabs -> Ids \cup {None}]
  /\ active \in [Tabs -> Dashboard \cup {NoDashboard}]
StorageTyped ==
  /\ stored \subseteq Dashboard
  /\ storedActive \in Ids \cup {None}
  /\ holders \subseteq Tabs
FileTyped ==
  /\ storageUp \in BOOLEAN
  /\ sent \subseteq {d \in Dashboard : d.name = FileName}
  /\ minted \subseteq NewDashboards \cup NewPlacements
ViewTyped ==
  /\ page \in [Tabs -> {"unloaded", "elsewhere", "dashboard"}]
  /\ reading \in [Tabs -> Nat]
  /\ snapshot \in [Tabs -> Seq(Items) \cup {None}]
  /\ snapshotOf \in [Tabs -> Ids \cup {None}]
EditTyped ==
  /\ editMode \in [Tabs -> BOOLEAN]
  /\ drafts \in [Tabs -> [Placements -> Configs \cup {NoDraft}]]

LEMMA TypeParts ==
  /\ TypeOK <=> SliceTyped /\ StorageTyped /\ FileTyped /\ ViewTyped /\ EditTyped
  /\ TypeOK' <=> SliceTyped' /\ StorageTyped' /\ FileTyped' /\ ViewTyped' /\ EditTyped'
<1>1. TypeOK <=> SliceTyped /\ StorageTyped /\ FileTyped /\ ViewTyped /\ EditTyped
  BY DEF TypeOK, SliceTyped, StorageTyped, FileTyped, ViewTyped, EditTyped
<1>2. TypeOK' <=> SliceTyped' /\ StorageTyped' /\ FileTyped' /\ ViewTyped' /\ EditTyped'
  BY DEF TypeOK, SliceTyped, StorageTyped, FileTyped, ViewTyped, EditTyped
<1> QED BY <1>1, <1>2

\* A dashboard keeps its type under a new layout or name.
LEMMA TypedChange ==
  ASSUME NEW d \in Dashboard, NEW l \in Seq(Items), NEW n \in Names
  PROVE  /\ [d EXCEPT !.layout = l] \in Dashboard /\ [d EXCEPT !.name = n] \in Dashboard
         /\ [id |-> d.id, name |-> n, layout |-> l] \in Dashboard
         /\ d.id \in Ids /\ d.name \in Names /\ d.layout \in Seq(Items)
         /\ [d EXCEPT !.layout = l].name = d.name
BY DEF Dashboard

\* Only layouts of items come out of a layout of items.
LEMMA TypedFilter ==
  ASSUME NEW s \in Seq(Items), NEW kept
  PROVE  filter(s, kept) \in Seq(Items)
<1>1. filter(s, kept) \in Seq(Items \cap kept)  BY FilterTyped
<1> DEFINE u == filter(s, kept)
<1>2. u \in Seq(Items \cap kept)  BY <1>1
<1> HIDE DEF u
<1>3. Len(u) \in Nat /\ u \in [1..Len(u) -> Items \cap kept]  BY <1>2
<1>4. u \in [1..Len(u) -> Items]  BY <1>3
<1>5. u \in Seq(Items)  BY <1>3, <1>4
<1> QED BY <1>5 DEF u

LEMMA TypedRepair ==
  ASSUME NEW d \in Dashboard
  PROVE  repairSeaDemoDashboard(d) \in Dashboard /\ pruneHiddenItems(d) \in Dashboard
<1>1. d.layout \in Seq(Items) /\ TemplateLayout \in Seq(Items) /\ TemplateName \in Names
  BY DashboardValues DEF Dashboard
<1>2. Retained(d.layout) \in Seq(Items)  BY <1>1, TypedFilter DEF Retained
<1>3. Missing(Retained(d.layout)) \in Seq(Items)  BY <1>1, TypedFilter DEF Missing
<1>4. RepairedLayout(d) \in Seq(Items)  BY <1>1, <1>2, <1>3 DEF RepairedLayout
<1>5. [id |-> d.id, name |-> TemplateName, layout |-> RepairedLayout(d)] \in Dashboard
  BY <1>1, <1>4, TypedChange
<1>6. repairSeaDemoDashboard(d) \in Dashboard  BY <1>5 DEF repairSeaDemoDashboard
<1>7. Visible(d.layout) \in Seq(Items)  BY <1>1, TypedFilter DEF Visible
<1>8. [d EXCEPT !.layout = Visible(d.layout)] \in Dashboard  BY <1>1, <1>7, TypedChange
<1> QED BY <1>6, <1>8 DEF pruneHiddenItems

LEMMA TypedTemplate == Template \in Dashboard
BY DashboardValues DEF Template, Dashboard, Ids

LEMMA TypedDerive ==
  ASSUME NEW D, D \subseteq Dashboard, NEW id
  PROVE  deriveActive(D, id) \in Dashboard \cup {NoDashboard}
BY Derived

LEMMA TypedDrafts ==
  ASSUME NEW s \in Seq(Items), NEW draft \in [Placements -> Configs \cup {NoDraft}]
  PROVE  WithDrafts(s, draft) \in Seq(Items)
<1>1. Len(s) \in Nat /\ DOMAIN s = 1..Len(s) /\ \A k \in 1..Len(s) : s[k] \in Items  OBVIOUS
<1>2. ASSUME NEW k \in 1..Len(s)
      PROVE  (IF draft[s[k].i] = NoDraft THEN s[k]
              ELSE [s[k] EXCEPT !.config = draft[s[k].i]]) \in Items
  <2>1. s[k] \in Items  BY <1>1
  <2>2. s[k].i \in Placements  BY <2>1 DEF Items
  <2>3. draft[s[k].i] # NoDraft => draft[s[k].i] \in Configs  BY <2>2
  <2> DEFINE c == draft[s[k].i]
             x == s[k]
  <2> HIDE DEF c, x
  <2>4. ASSUME c \in Configs, x \in Items PROVE [x EXCEPT !.config = c] \in Items
    BY <2>4 DEF Items
  <2> QED BY <2>1, <2>3, <2>4 DEF c, x
<1>3. WithDrafts(s, draft) =
        [k \in 1..Len(s) |-> IF draft[s[k].i] = NoDraft THEN s[k]
                             ELSE [s[k] EXCEPT !.config = draft[s[k].i]]]
  BY <1>1 DEF WithDrafts
<1>4. WithDrafts(s, draft) \in [1..Len(s) -> Items]  BY <1>2, <1>3
<1> QED BY <1>1, <1>4

\* set() and the writes to localStorage.
LEMMA TypedSet ==
  ASSUME SliceTyped, NEW t \in Tabs, NEW D, D \subseteq Dashboard, NEW id \in Ids \cup {None},
         NEW d \in Dashboard \cup {NoDashboard}, SetSlice(t, D, id, d)
  PROVE  SliceTyped'
BY DEF SetSlice, SliceTyped, NoDashboard, Dashboard, Ids, Items, Placements, TemplatePlacements

LEMMA TypedStore ==
  ASSUME StorageTyped, NEW t \in Tabs, NEW D, D \subseteq Dashboard, persistList(t, D),
         storedActive' \in Ids \cup {None}
  PROVE  StorageTyped'
BY DEF persistList, StorageTyped

LEMMA TypedActiveId ==
  ASSUME StorageTyped, NEW id \in Ids \cup {None}, persistActiveId(id)
  PROVE  storedActive' \in Ids \cup {None}
BY DEF persistActiveId, StorageTyped

\* A layout operation.
LEMMA TypedLayout ==
  ASSUME SliceTyped, StorageTyped, NEW t \in Tabs, Shown(t), NEW l \in Seq(Items),
         StoreLayout(t, l) \/ KeepLayout(t, l)
  PROVE  SliceTyped' /\ StorageTyped'
<1> DEFINE d == [active[t] EXCEPT !.layout = l]
           D == Replace(list[t], d)
<1>1. active[t] \in Dashboard  BY DEF Shown, SliceTyped
<1>2. d \in Dashboard
  <2>1. \E n \in Names : TRUE  BY DashboardValues
  <2> QED BY <1>1, <2>1, TypedChange
<1>3. D \subseteq Dashboard
  <2> HIDE DEF d
  <2>1. list[t] \subseteq Dashboard  BY DEF SliceTyped
  <2> QED BY <1>2, <2>1 DEF Replace
<1>4. SetLayout(t, l)  BY DEF StoreLayout, KeepLayout
<1>5. /\ active' = [active EXCEPT ![t] = d] /\ list' = [list EXCEPT ![t] = D]
      /\ activeId' = activeId
  BY <1>4 DEF SetLayout, SliceTyped
<1>6. /\ StoreLayout(t, l) => persistList(t, D) /\ UNCHANGED storedActive
      /\ KeepLayout(t, l) => holders' = holders \ {t} /\ UNCHANGED <<stored, storedActive>>
  BY DEF StoreLayout, KeepLayout
<1> HIDE DEF d, D
<1>7. SliceTyped'  BY <1>2, <1>3, <1>5 DEF SliceTyped
<1>8. StorageTyped'  BY <1>3, <1>6, TypedStore DEF StorageTyped
<1> QED BY <1>7, <1>8

\* The page and the edit session.
LEMMA TypedShow ==
  ASSUME ViewTyped, NEW t \in Tabs, Show(t) \/ UNCHANGED view
  PROVE  ViewTyped'
<1>1. CASE Show(t) /\ page[t] # "dashboard"
  <2>1. /\ page' = [page EXCEPT ![t] = "dashboard"] /\ reading' = [reading EXCEPT ![t] = reading[t] + 1]
        /\ UNCHANGED <<snapshot, snapshotOf>>
    BY <1>1 DEF Show
  <2> QED BY <2>1 DEF ViewTyped
<1>2. CASE UNCHANGED view  BY <1>2 DEF ViewTyped, view
<1> QED BY <1>1, <1>2 DEF Show

LEMMA TypedClose ==
  ASSUME EditTyped, NEW t \in Tabs, NEW id, CloseOnSwitch(t, id), UNCHANGED drafts
  PROVE  EditTyped'
BY DEF CloseOnSwitch, EditTyped

LEMMA TypedNoSnapshot ==
  ASSUME ViewTyped, NEW t \in Tabs, NoSnapshot(t)
  PROVE  /\ snapshot' \in [Tabs -> Seq(Items) \cup {None}]
         /\ snapshotOf' \in [Tabs -> Ids \cup {None}]
BY DEF ViewTyped, NoSnapshot

LEMMA TypedEnd ==
  ASSUME EditTyped, NEW t \in Tabs,
         editMode' = [editMode EXCEPT ![t] = FALSE], drafts' = [drafts EXCEPT ![t] = NoDrafts]
  PROVE  EditTyped'
BY DEF EditTyped, NoDrafts

LEMMA LoadTyped ==
  ASSUME TypeOK, NEW t \in Tabs, Load(t)
  PROVE  TypeOK'
<1> DEFINE D == {repairSeaDemoDashboard(d) : d \in stored}
<1>1. SliceTyped /\ StorageTyped /\ FileTyped /\ ViewTyped /\ EditTyped  BY TypeParts
<1>2. D \subseteq Dashboard  BY <1>1, TypedRepair DEF StorageTyped
<1>3. /\ SetSlice(t, D, storedActive, deriveActive(D, storedActive))
      /\ IF D # stored THEN persistList(t, D) ELSE stored' = stored /\ holders' = holders \cup {t}
      /\ page' = [page EXCEPT ![t] = "elsewhere"]
      /\ editMode' = [editMode EXCEPT ![t] = FALSE]
      /\ drafts' = [drafts EXCEPT ![t] = NoDrafts]
      /\ reading' = [reading EXCEPT ![t] = 0]
      /\ NoSnapshot(t)
      /\ UNCHANGED <<storedActive, storageUp, sent, minted>>
  BY DEF Load
<1> HIDE DEF D
<1>4. deriveActive(D, storedActive) \in Dashboard \cup {NoDashboard}  BY <1>2, TypedDerive
<1>5. SliceTyped'  BY <1>1, <1>2, <1>3, <1>4, TypedSet DEF StorageTyped
<1>6. StorageTyped'
  <2>1. storedActive' \in Ids \cup {None}  BY <1>1, <1>3 DEF StorageTyped
  <2>2. CASE D # stored  BY <1>1, <1>2, <1>3, <2>1, <2>2, TypedStore
  <2>3. CASE D = stored  BY <1>1, <1>3, <2>1, <2>3 DEF StorageTyped
  <2> QED BY <2>2, <2>3
<1>7. ViewTyped'
  <2>1. snapshot' \in [Tabs -> Seq(Items) \cup {None}] /\ snapshotOf' \in [Tabs -> Ids \cup {None}]
    BY <1>1, <1>3, TypedNoSnapshot
  <2>2. page' \in [Tabs -> {"unloaded", "elsewhere", "dashboard"}] /\ reading' \in [Tabs -> Nat]
    BY <1>1, <1>3 DEF ViewTyped
  <2> QED BY <2>1, <2>2 DEF ViewTyped
<1>8. EditTyped'  BY <1>1, <1>3, TypedEnd
<1>9. FileTyped'  BY <1>1, <1>3 DEF FileTyped
<1> QED BY <1>5, <1>6, <1>7, <1>8, <1>9, TypeParts

LEMMA PageTyped ==
  ASSUME TypeOK, NEW t \in Tabs, Mount(t) \/ Leave(t)
  PROVE  TypeOK'
<1>1. SliceTyped /\ StorageTyped /\ FileTyped /\ ViewTyped /\ EditTyped  BY TypeParts
<1>2. UNCHANGED <<list, activeId, active, stored, storedActive, holders, storageUp, sent, minted,
                  editMode, drafts>>
  BY DEF Mount, Leave, slice, storage
<1>3. SliceTyped' /\ StorageTyped' /\ FileTyped' /\ EditTyped'
  BY <1>1, <1>2 DEF SliceTyped, StorageTyped, FileTyped, EditTyped
<1>4. ViewTyped'
  <2>1. CASE Mount(t)  BY <1>1, <2>1, TypedShow DEF Mount
  <2>2. CASE Leave(t)
    <3>1. snapshot' \in [Tabs -> Seq(Items) \cup {None}] /\ snapshotOf' \in [Tabs -> Ids \cup {None}]
      BY <1>1, <2>2, TypedNoSnapshot DEF Leave
    <3>2. page' = [page EXCEPT ![t] = "elsewhere"] /\ reading' = reading  BY <2>2 DEF Leave
    <3> QED BY <1>1, <3>1, <3>2 DEF ViewTyped
  <2> QED BY <2>1, <2>2
<1> QED BY <1>3, <1>4, TypeParts

LEMMA HydrateTyped ==
  ASSUME TypeOK, NEW t \in Tabs, HydrateAnswer(t)
  PROVE  TypeOK'
<1>1. SliceTyped /\ StorageTyped /\ FileTyped /\ ViewTyped /\ EditTyped  BY TypeParts
<1>2. /\ reading[t] > 0 /\ reading' = [reading EXCEPT ![t] = reading[t] - 1]
      /\ UNCHANGED <<storageUp, sent, minted, editMode, drafts, page, snapshot, snapshotOf>>
  BY DEF HydrateAnswer
<1>3. FileTyped' /\ EditTyped'  BY <1>1, <1>2 DEF FileTyped, EditTyped
<1>4. ViewTyped'  BY <1>1, <1>2 DEF ViewTyped
<1>5. CASE active[t] # NoDashboard
  <2>1. UNCHANGED <<list, activeId, active, stored, storedActive, holders>>
    BY <1>5 DEF HydrateAnswer, slice, storage
  <2> QED BY <1>1, <1>3, <1>4, <2>1, TypeParts DEF SliceTyped, StorageTyped
<1>6. CASE active[t] = NoDashboard
  <2>1. PICK answer \in sent \cup {NoDashboard} :
          setActiveDashboard(t, pruneHiddenItems(IF answer = NoDashboard THEN Template
                                                 ELSE repairSeaDemoDashboard(answer)))
    BY <1>6 DEF HydrateAnswer
  <2> DEFINE found == IF answer = NoDashboard THEN Template ELSE repairSeaDemoDashboard(answer)
             d == pruneHiddenItems(found)
             D == IF \E e \in list[t] : e.id = d.id THEN Replace(list[t], d) ELSE list[t] \cup {d}
  <2>2. found \in Dashboard
    <3>1. answer # NoDashboard => answer \in Dashboard  BY <1>1 DEF FileTyped
    <3> QED BY <3>1, TypedTemplate, TypedRepair
  <2>3. d \in Dashboard
    <3> HIDE DEF found
    <3> QED BY <2>2, TypedRepair
  <2>4. SetSlice(t, D, d.id, d) /\ persistList(t, D) /\ persistActiveId(d.id)
    BY <2>1 DEF setActiveDashboard
  <2> HIDE DEF d
  <2>5. D \subseteq Dashboard
    <3>1. list[t] \subseteq Dashboard  BY <1>1 DEF SliceTyped
    <3> QED BY <2>3, <3>1 DEF Replace
  <2>6. d.id \in Ids \cup {None}  BY <2>3 DEF Dashboard
  <2> HIDE DEF D
  <2>7. SliceTyped'  BY <1>1, <2>3, <2>4, <2>5, <2>6, TypedSet
  <2>8. StorageTyped'
    <3>1. storedActive' \in Ids \cup {None}  BY <1>1, <2>4, <2>6, TypedActiveId
    <3> QED BY <1>1, <2>4, <2>5, <3>1, TypedStore
  <2> QED BY <1>3, <1>4, <2>7, <2>8, TypeParts
<1> QED BY <1>5, <1>6

\* A new dashboard, empty or a copy, enters the list and the screen.
LEMMA EnterTyped ==
  ASSUME TypeOK, NEW t \in Tabs, NEW d \in Dashboard, Mint(d.id), d.id \in NewDashboards,
         SetSlice(t, list[t] \cup {d}, d.id, d), persistList(t, list[t] \cup {d}),
         persistActiveId(d.id), CloseOnSwitch(t, d.id), Show(t) \/ UNCHANGED view,
         UNCHANGED <<storageUp, sent, drafts>>
  PROVE  TypeOK'
<1> DEFINE D == list[t] \cup {d}
           id == d.id
<1>1. SliceTyped /\ StorageTyped /\ FileTyped /\ ViewTyped /\ EditTyped  BY TypeParts
<1>2. D \subseteq Dashboard  BY <1>1 DEF SliceTyped
<1>3. id \in Ids \cup {None}  BY DEF Ids
<1>4. SetSlice(t, D, id, d) /\ persistList(t, D) /\ persistActiveId(id) /\ CloseOnSwitch(t, id)
  OBVIOUS
<1>5. FileTyped'  BY <1>1 DEF FileTyped, Mint
<1> HIDE DEF D, id
<1>6. SliceTyped'  BY <1>1, <1>2, <1>3, <1>4, TypedSet
<1>7. StorageTyped'
  <2>1. storedActive' \in Ids \cup {None}  BY <1>1, <1>3, <1>4, TypedActiveId
  <2> QED BY <1>1, <1>2, <1>4, <2>1, TypedStore
<1>8. ViewTyped'  BY <1>1, TypedShow
<1>9. EditTyped'  BY <1>1, <1>4, TypedClose
<1> QED BY <1>5, <1>6, <1>7, <1>8, <1>9, TypeParts

LEMMA CreateTyped ==
  ASSUME TypeOK, NEW t \in Tabs, NEW name \in PlainNames, createDashboard(t, name)
  PROVE  TypeOK'
<1>1. PICK id \in NewDashboards :
        LET d == [id |-> id, name |-> name, layout |-> <<>>]
        IN /\ Mint(id)
           /\ SetSlice(t, list[t] \cup {d}, id, d)
           /\ persistList(t, list[t] \cup {d}) /\ persistActiveId(id)
           /\ CloseOnSwitch(t, id)
           /\ Show(t)
           /\ UNCHANGED <<storageUp, sent, drafts>>
  BY DEF createDashboard
<1> DEFINE d == [id |-> id, name |-> name, layout |-> <<>>]
<1>2. d \in Dashboard /\ d.id = id
  <2>1. name \in Names /\ id \in Ids /\ <<>> \in Seq(Items)  BY DEF PlainNames, Ids
  <2> QED BY <2>1 DEF Dashboard
<1>3. /\ Mint(d.id) /\ SetSlice(t, list[t] \cup {d}, d.id, d)
      /\ persistList(t, list[t] \cup {d}) /\ persistActiveId(d.id)
      /\ CloseOnSwitch(t, d.id) /\ Show(t) /\ UNCHANGED <<storageUp, sent, drafts>>
      /\ d.id \in NewDashboards
  BY <1>1
<1> HIDE DEF d
<1> QED BY <1>2, <1>3, EnterTyped

LEMMA DuplicateTyped ==
  ASSUME TypeOK, NEW t \in Tabs, NEW oldId, duplicateDashboard(t, oldId)
  PROVE  TypeOK'
<1>1. PICK source \in list[t], id \in NewDashboards, name \in PlainNames :
        LET d == [id |-> id, name |-> name, layout |-> source.layout]
        IN /\ Mint(id)
           /\ SetSlice(t, list[t] \cup {d}, id, d)
           /\ persistList(t, list[t] \cup {d}) /\ persistActiveId(id)
           /\ CloseOnSwitch(t, id)
           /\ UNCHANGED <<storageUp, sent, drafts, view>>
  BY DEF duplicateDashboard
<1> DEFINE d == [id |-> id, name |-> name, layout |-> source.layout]
<1>2. d \in Dashboard /\ d.id = id
  <2>1. source \in Dashboard  BY DEF TypeOK
  <2>2. name \in Names /\ id \in Ids /\ source.layout \in Seq(Items)
    BY <2>1 DEF PlainNames, Ids, Dashboard
  <2> QED BY <2>2 DEF Dashboard
<1>3. /\ Mint(d.id) /\ SetSlice(t, list[t] \cup {d}, d.id, d)
      /\ persistList(t, list[t] \cup {d}) /\ persistActiveId(d.id)
      /\ CloseOnSwitch(t, d.id) /\ UNCHANGED view /\ UNCHANGED <<storageUp, sent, drafts>>
      /\ d.id \in NewDashboards
  BY <1>1
<1> HIDE DEF d
<1> QED BY <1>2, <1>3, EnterTyped

LEMMA RenameTyped ==
  ASSUME TypeOK, NEW t \in Tabs, NEW id, NEW name \in Typed, renameDashboard(t, id, name)
  PROVE  TypeOK'
<1> DEFINE D == Renamed(list[t], id, name)
<1>1. SliceTyped /\ StorageTyped /\ FileTyped /\ ViewTyped /\ EditTyped  BY TypeParts
<1>2. D \subseteq Dashboard
  <2>1. list[t] \subseteq Dashboard /\ name \in Names  BY <1>1, DashboardValues DEF SliceTyped
  <2>2. \A d \in list[t] : d \in Dashboard /\ [d EXCEPT !.name = name] \in Dashboard
    BY <2>1 DEF Dashboard
  <2> QED BY <2>2 DEF Renamed
<1>3. /\ SetSlice(t, D, activeId[t], deriveActive(D, activeId[t])) /\ persistList(t, D)
      /\ UNCHANGED <<storedActive, storageUp, sent, minted, editMode, drafts, view>>
  BY DEF renameDashboard
<1> HIDE DEF D
<1>4. deriveActive(D, activeId[t]) \in Dashboard \cup {NoDashboard} /\ activeId[t] \in Ids \cup {None}
  BY <1>1, <1>2, TypedDerive DEF SliceTyped
<1>5. SliceTyped'  BY <1>1, <1>2, <1>3, <1>4, TypedSet
<1>6. StorageTyped'
  <2>1. storedActive' \in Ids \cup {None}  BY <1>1, <1>3 DEF StorageTyped
  <2> QED BY <1>1, <1>2, <1>3, <2>1, TypedStore
<1>7. ViewTyped' /\ EditTyped' /\ FileTyped'  BY <1>1, <1>3 DEF ViewTyped, EditTyped, FileTyped, view
<1> QED BY <1>5, <1>6, <1>7, TypeParts

LEMMA DeleteTyped ==
  ASSUME TypeOK, NEW t \in Tabs, NEW id, deleteDashboard(t, id)
  PROVE  TypeOK'
<1> DEFINE D == {d \in list[t] : d.id # id}
           next == IF activeId[t] # id THEN {activeId[t]}
                   ELSE IF D = {} THEN {None} ELSE {d.id : d \in D}
<1>1. SliceTyped /\ StorageTyped /\ FileTyped /\ ViewTyped /\ EditTyped  BY TypeParts
<1>2. D \subseteq Dashboard  BY <1>1 DEF SliceTyped
<1>3. PICK newId \in next :
        /\ SetSlice(t, D, newId, deriveActive(D, newId)) /\ persistList(t, D)
        /\ persistActiveId(newId) /\ CloseOnSwitch(t, newId)
        /\ UNCHANGED <<storageUp, sent, minted, drafts, view>>
  BY DEF deleteDashboard
<1>4. newId \in Ids \cup {None}
  <2>1. activeId[t] \in Ids \cup {None} /\ \A d \in D : d.id \in Ids
    BY <1>1, <1>2 DEF SliceTyped, Dashboard
  <2> QED BY <2>1
<1> HIDE DEF D, next
<1>5. deriveActive(D, newId) \in Dashboard \cup {NoDashboard}  BY <1>2, TypedDerive
<1>6. SliceTyped'  BY <1>1, <1>2, <1>3, <1>4, <1>5, TypedSet
<1>7. StorageTyped'
  <2>1. storedActive' \in Ids \cup {None}  BY <1>1, <1>3, <1>4, TypedActiveId
  <2> QED BY <1>1, <1>2, <1>3, <2>1, TypedStore
<1>8. ViewTyped' /\ FileTyped'  BY <1>1, <1>3 DEF ViewTyped, FileTyped, view
<1>9. EditTyped'  BY <1>1, <1>3, TypedClose
<1> QED BY <1>6, <1>7, <1>8, <1>9, TypeParts

LEMMA SwitchTyped ==
  ASSUME TypeOK, NEW t \in Tabs, NEW id \in Ids, setActiveDashboardById(t, id)
  PROVE  TypeOK'
<1>1. SliceTyped /\ StorageTyped /\ FileTyped /\ ViewTyped /\ EditTyped  BY TypeParts
<1>2. /\ persistActiveId(id) /\ SetSlice(t, list[t], id, deriveActive(list[t], id))
      /\ CloseOnSwitch(t, id) /\ Show(t) /\ UNCHANGED <<stored, holders, storageUp, sent, minted, drafts>>
  BY DEF setActiveDashboardById
<1>3. list[t] \subseteq Dashboard  BY <1>1 DEF SliceTyped
<1>4. deriveActive(list[t], id) \in Dashboard \cup {NoDashboard}  BY <1>3, TypedDerive
<1>5. SliceTyped'  BY <1>1, <1>2, <1>3, <1>4, TypedSet
<1>6. StorageTyped'
  <2>1. storedActive' \in Ids \cup {None}  BY <1>1, <1>2, TypedActiveId
  <2> QED BY <1>1, <1>2, <2>1 DEF StorageTyped
<1>7. ViewTyped'  BY <1>1, <1>2, TypedShow
<1>8. EditTyped'  BY <1>1, <1>2, TypedClose
<1>9. FileTyped'  BY <1>1, <1>2 DEF FileTyped
<1> QED BY <1>5, <1>6, <1>7, <1>8, <1>9, TypeParts

LEMMA EditIsTyped ==
  ASSUME TypeOK, NEW t \in Tabs, handleEdit(t)
  PROVE  TypeOK'
<1>1. SliceTyped /\ StorageTyped /\ FileTyped /\ ViewTyped /\ EditTyped  BY TypeParts
<1>2. /\ UNCHANGED <<list, activeId, active, stored, storedActive, holders, storageUp, sent, minted,
                     drafts, page, reading>>
      /\ snapshot' = [snapshot EXCEPT ![t] = active[t].layout]
      /\ snapshotOf' = [snapshotOf EXCEPT ![t] = active[t].id]
      /\ editMode' = [editMode EXCEPT ![t] = TRUE]
      /\ active[t] # NoDashboard
  BY DEF handleEdit, slice, storage, Shown, Layout
<1>3. SliceTyped' /\ StorageTyped' /\ FileTyped'
  BY <1>1, <1>2 DEF SliceTyped, StorageTyped, FileTyped
<1>4. active[t].layout \in Seq(Items) /\ active[t].id \in Ids
  <2>1. active[t] \in Dashboard  BY <1>1, <1>2 DEF SliceTyped
  <2> QED BY <2>1 DEF Dashboard
<1>5. ViewTyped'
  <2> DEFINE l == active[t].layout
             i == active[t].id
  <2>1. /\ l \in Seq(Items) /\ i \in Ids /\ UNCHANGED <<page, reading>>
        /\ snapshot' = [snapshot EXCEPT ![t] = l] /\ snapshotOf' = [snapshotOf EXCEPT ![t] = i]
    BY <1>2, <1>4
  <2> HIDE DEF l, i
  <2> QED BY <1>1, <2>1 DEF ViewTyped
<1>6. EditTyped'  BY <1>1, <1>2 DEF EditTyped
<1> QED BY <1>3, <1>5, <1>6, TypeParts

\* Escape and the drafts of the configuration panel.
LEMMA DraftTyped ==
  ASSUME TypeOK, NEW t \in Tabs, UNCHANGED <<storage, storageUp, sent, minted, slice, view>>,
         \/ editMode' = [editMode EXCEPT ![t] = FALSE] /\ UNCHANGED drafts
         \/ /\ UNCHANGED editMode
            /\ \E p \in Placements, c \in Configs \cup {NoDraft} :
                 drafts' = [drafts EXCEPT ![t] = [drafts[t] EXCEPT ![p] = c]]
  PROVE  TypeOK'
<1>1. SliceTyped /\ StorageTyped /\ FileTyped /\ ViewTyped /\ EditTyped  BY TypeParts
<1>2. UNCHANGED <<list, activeId, active, stored, storedActive, holders, storageUp, sent, minted,
                  page, reading, snapshot, snapshotOf>>
  BY DEF slice, storage, view
<1>3. SliceTyped' /\ StorageTyped' /\ FileTyped' /\ ViewTyped'
  BY <1>1, <1>2 DEF SliceTyped, StorageTyped, FileTyped, ViewTyped
<1>4. EditTyped'
  <2>1. CASE editMode' = [editMode EXCEPT ![t] = FALSE] /\ UNCHANGED drafts
    BY <1>1, <2>1 DEF EditTyped
  <2>2. ASSUME NEW p \in Placements, NEW c \in Configs \cup {NoDraft}, UNCHANGED editMode,
               drafts' = [drafts EXCEPT ![t] = [drafts[t] EXCEPT ![p] = c]]
        PROVE  EditTyped'
    <3>1. [drafts[t] EXCEPT ![p] = c] \in [Placements -> Configs \cup {NoDraft}]
      BY <1>1 DEF EditTyped
    <3> QED BY <1>1, <2>2, <3>1 DEF EditTyped
  <2> QED BY <2>1, <2>2
<1> QED BY <1>3, <1>4, TypeParts

\* The palette and the widgets' own menus.
LEMMA StoreTyped ==
  ASSUME TypeOK, NEW t \in Tabs, Shown(t), NEW l \in Seq(Items), StoreLayout(t, l),
         UNCHANGED minted \/ \E p \in NewPlacements : Mint(p),
         UNCHANGED <<storageUp, sent, editMode, drafts, view>>
  PROVE  TypeOK'
<1>1. SliceTyped /\ StorageTyped /\ FileTyped /\ ViewTyped /\ EditTyped  BY TypeParts
<1>2. SliceTyped' /\ StorageTyped'  BY <1>1, TypedLayout
<1>3. FileTyped'  BY <1>1 DEF FileTyped, Mint
<1>4. ViewTyped' /\ EditTyped'  BY <1>1 DEF ViewTyped, EditTyped, view
<1> QED BY <1>2, <1>3, <1>4, TypeParts

LEMMA ShownLayout ==
  ASSUME TypeOK, NEW t \in Tabs, Shown(t)
  PROVE  Layout(t) \in Seq(Items) /\ active[t] \in Dashboard
<1>1. active[t] \in Dashboard  BY DEF TypeOK, Shown
<1> QED BY <1>1 DEF Layout, Dashboard

LEMMA IndexIs ==
  ASSUME NEW s \in Seq(Items), NEW p, Has(s, p)
  PROVE  IndexOf(s, p) \in 1..Len(s) /\ s[IndexOf(s, p)].i = p /\ s[IndexOf(s, p)] \in Items
<1>1. \E k \in 1..Len(s) : s[k].i = p  BY DEF Has
<1>2. IndexOf(s, p) = CHOOSE k \in 1..Len(s) : s[k].i = p  BY DEF IndexOf
<1> QED BY <1>1, <1>2

LEMMA AddTyped ==
  ASSUME TypeOK, NEW t \in Tabs, NEW c \in Components, addComponentToLayout(t, c)
  PROVE  TypeOK'
<1>1. PICK p \in NewPlacements :
        /\ Shown(t) /\ Mint(p)
        /\ StoreLayout(t, Append(Layout(t), [i |-> p, component |-> c, config |-> EmptyConfig]))
        /\ UNCHANGED <<storageUp, sent, editMode, drafts, view>>
  BY DEF addComponentToLayout
<1>2. [i |-> p, component |-> c, config |-> EmptyConfig] \in Items
  BY DashboardValues DEF Items, Placements
<1>3. Layout(t) \in Seq(Items)  BY <1>1, ShownLayout
<1> DEFINE l == Append(Layout(t), [i |-> p, component |-> c, config |-> EmptyConfig])
<1>4. l \in Seq(Items)  BY <1>2, <1>3
<1>5. StoreLayout(t, l)  BY <1>1
<1> HIDE DEF l
<1> QED BY <1>1, <1>4, <1>5, StoreTyped

LEMMA InsertTyped ==
  ASSUME TypeOK, NEW t \in Tabs, NEW c \in Components, NEW at \in Nat, insertComponentAt(t, c, at)
  PROVE  TypeOK'
<1>1. PICK p \in NewPlacements :
        /\ Shown(t) /\ Mint(p)
        /\ StoreLayout(t, Insert(Layout(t), Clamp(at, Layout(t)),
                                 [i |-> p, component |-> c, config |-> EmptyConfig]))
        /\ UNCHANGED <<storageUp, sent, editMode, drafts, view>>
  BY DEF insertComponentAt
<1> DEFINE x == [i |-> p, component |-> c, config |-> EmptyConfig]
           s == Layout(t)
           k == Clamp(at, s)
           l == Insert(s, k, x)
<1>2. x \in Items  BY DashboardValues DEF Items, Placements
<1>3. s \in Seq(Items)  BY <1>1, ShownLayout
<1>5. StoreLayout(t, l)  BY <1>1
<1> HIDE DEF x, s
<1>6. k \in 0..Len(s)  BY <1>3 DEF Clamp
<1> HIDE DEF k
<1>7. HasInserted(Insert(s, k, x), Items, s, k, x)
  <2>1. s \in Seq(Items) /\ k \in 0..Len(s) /\ x \in Items  BY <1>2, <1>3, <1>6
  <2> QED BY ONLY <2>1, Inserted
<1>4. l \in Seq(Items)  BY <1>7 DEF HasInserted
<1> HIDE DEF l
<1> QED BY <1>1, <1>4, <1>5, StoreTyped

\* What a move leaves of the layout.
LEMMA MoveLayout ==
  ASSUME TypeOK, NEW t \in Tabs, NEW p, NEW to \in Nat, Shown(t), Has(Layout(t), p)
  PROVE  LET k == IndexOf(Layout(t), p)
         IN  HasMoved(Moved(Layout(t), k - 1, to), Items, Layout(t), k, to,
                      {item \in Items : item.i # p})
<1> DEFINE s == Layout(t)
           k == IndexOf(s, p)
           kept == {item \in Items : item.i # p}
<1>1. s \in Seq(Items)  BY ShownLayout
<1>2. k \in 1..Len(s) /\ s[k].i = p  BY <1>1, IndexIs
<1>3. s[k] \notin kept  BY <1>2
<1> HIDE DEF s, k, kept
<1>4. HasMoved(Moved(s, k - 1, to), Items, s, k, to, kept)  BY <1>1, <1>2, <1>3, MovedLands
<1> QED BY <1>4 DEF s, k, kept

LEMMA MoveTyped ==
  ASSUME TypeOK, NEW t \in Tabs, NEW p, NEW to \in Nat, moveLayoutItem(t, p, to)
  PROVE  TypeOK'
<1> DEFINE l == Moved(Layout(t), IndexOf(Layout(t), p) - 1, to)
<1>1. /\ Shown(t) /\ Has(Layout(t), p) /\ StoreLayout(t, l)
      /\ UNCHANGED <<storageUp, sent, minted, editMode, drafts, view>>
  BY DEF moveLayoutItem
<1>2. l \in Seq(Items)  BY <1>1, MoveLayout DEF HasMoved
<1> HIDE DEF l
<1> QED BY <1>1, <1>2, StoreTyped

LEMMA RemoveTyped ==
  ASSUME TypeOK, NEW t \in Tabs, NEW p, removeComponentFromLayout(t, p)
  PROVE  TypeOK'
<1> DEFINE l == filter(Layout(t), {item \in Items : item.i # p})
<1>1. /\ Shown(t) /\ StoreLayout(t, l)
      /\ UNCHANGED <<storageUp, sent, minted, editMode, drafts, view>>
  BY DEF removeComponentFromLayout
<1>2. l \in Seq(Items)
  <2>1. Layout(t) \in Seq(Items)  BY <1>1, ShownLayout
  <2> QED BY <2>1, TypedFilter
<1> HIDE DEF l
<1> QED BY <1>1, <1>2, StoreTyped

LEMMA CopyTyped ==
  ASSUME TypeOK, NEW t \in Tabs, NEW p, duplicateLayoutItem(t, p)
  PROVE  TypeOK'
<1> DEFINE s == Layout(t)
           x == s[IndexOf(s, p)]
<1>1. PICK q \in NewPlacements :
        /\ Shown(t) /\ Has(s, p) /\ Mint(q)
        /\ StoreLayout(t, Append(s, [x EXCEPT !.i = q]))
        /\ UNCHANGED <<storageUp, sent, editMode, drafts, view>>
  BY DEF duplicateLayoutItem
<1>2. s \in Seq(Items)  BY <1>1, ShownLayout
<1> HIDE DEF s
<1>3. x \in Items  BY <1>1, <1>2, IndexIs
<1> HIDE DEF x
<1>4. [x EXCEPT !.i = q] \in Items  BY <1>3 DEF Items, Placements
<1> DEFINE l == Append(s, [x EXCEPT !.i = q])
<1>5. l \in Seq(Items)  BY <1>2, <1>4
<1>6. StoreLayout(t, l)  BY <1>1
<1> HIDE DEF l
<1> QED BY <1>1, <1>5, <1>6, StoreTyped

LEMMA CommitTyped ==
  ASSUME TypeOK, NEW t \in Tabs, NEW p \in Placements, commitDraft(t, p)
  PROVE  TypeOK'
<1> DEFINE one == [NoDrafts EXCEPT ![p] = drafts[t][p]]
           l == WithDrafts(Layout(t), one)
<1>1. SliceTyped /\ StorageTyped /\ FileTyped /\ ViewTyped /\ EditTyped  BY TypeParts
<1>2. /\ Shown(t) /\ KeepLayout(t, l)
      /\ drafts' = [drafts EXCEPT ![t] = [drafts[t] EXCEPT ![p] = NoDraft]]
      /\ UNCHANGED <<storageUp, sent, minted, editMode, view>>
  BY DEF commitDraft
<1>3. one \in [Placements -> Configs \cup {NoDraft}]  BY <1>1 DEF EditTyped, NoDrafts
<1> HIDE DEF one
<1>4. l \in Seq(Items)
  <2>1. Layout(t) \in Seq(Items)  BY <1>2, ShownLayout
  <2> QED BY <1>3, <2>1, TypedDrafts
<1> HIDE DEF l
<1>5. SliceTyped' /\ StorageTyped'  BY <1>1, <1>2, <1>4, TypedLayout
<1>6. FileTyped' /\ ViewTyped'  BY <1>1, <1>2 DEF FileTyped, ViewTyped, view
<1>7. EditTyped'  BY <1>1, <1>2 DEF EditTyped
<1> QED BY <1>5, <1>6, <1>7, TypeParts

\* Save and Discard.
LEMMA EndTyped ==
  ASSUME TypeOK, NEW t \in Tabs, Shown(t),
         UNCHANGED <<storage, slice>> \/ \E l \in Seq(Items) : KeepLayout(t, l),
         editMode' = [editMode EXCEPT ![t] = FALSE], drafts' = [drafts EXCEPT ![t] = NoDrafts],
         NoSnapshot(t), UNCHANGED <<storageUp, minted, page, reading>>,
         sent' \subseteq {d \in Dashboard : d.name = FileName}
  PROVE  TypeOK'
<1>1. SliceTyped /\ StorageTyped /\ FileTyped /\ ViewTyped /\ EditTyped  BY TypeParts
<1>2. SliceTyped' /\ StorageTyped'
  <2>1. CASE UNCHANGED <<storage, slice>>
    BY <1>1, <2>1 DEF SliceTyped, StorageTyped, storage, slice
  <2>2. CASE \E l \in Seq(Items) : KeepLayout(t, l)  BY <1>1, <2>2, TypedLayout
  <2> QED BY <2>1, <2>2
<1>3. EditTyped'  BY <1>1, TypedEnd
<1>4. ViewTyped'
  <2>1. snapshot' \in [Tabs -> Seq(Items) \cup {None}] /\ snapshotOf' \in [Tabs -> Ids \cup {None}]
    BY <1>1, TypedNoSnapshot
  <2> QED BY <1>1, <2>1 DEF ViewTyped
<1>5. FileTyped'  BY <1>1 DEF FileTyped
<1> QED BY <1>2, <1>3, <1>4, <1>5, TypeParts

LEMMA SaveTyped ==
  ASSUME TypeOK, NEW t \in Tabs, handleSave(t)
  PROVE  TypeOK'
<1> DEFINE l == WithDrafts(Layout(t), drafts[t])
           saved == [active[t] EXCEPT !.layout = l]
<1>1. /\ Shown(t)
      /\ UNCHANGED <<storage, slice>> \/ KeepLayout(t, l)
      /\ Send(saved)
      /\ drafts' = [drafts EXCEPT ![t] = NoDrafts] /\ editMode' = [editMode EXCEPT ![t] = FALSE]
      /\ NoSnapshot(t) /\ UNCHANGED <<storageUp, minted, page, reading>>
  BY DEF handleSave
<1>2. Layout(t) \in Seq(Items) /\ active[t] \in Dashboard  BY <1>1, ShownLayout
<1>3. l \in Seq(Items)
  <2>1. drafts[t] \in [Placements -> Configs \cup {NoDraft}]  BY DEF TypeOK
  <2> QED BY <1>2, <2>1, TypedDrafts
<1> HIDE DEF l
<1>4. saved \in Dashboard  BY <1>2, <1>3 DEF Dashboard
<1> HIDE DEF saved
<1>5. sent' \subseteq {d \in Dashboard : d.name = FileName}
  <2>1. sent \subseteq {d \in Dashboard : d.name = FileName}  BY DEF TypeOK
  <2> QED BY <1>1, <1>4, <2>1 DEF Send
<1> QED BY <1>1, <1>3, <1>5, EndTyped

LEMMA DiscardTyped ==
  ASSUME TypeOK, NEW t \in Tabs, handleDiscard(t)
  PROVE  TypeOK'
<1>1. /\ Shown(t)
      /\ IF snapshot[t] = None THEN UNCHANGED <<storage, slice>> ELSE KeepLayout(t, snapshot[t])
      /\ drafts' = [drafts EXCEPT ![t] = NoDrafts] /\ editMode' = [editMode EXCEPT ![t] = FALSE]
      /\ NoSnapshot(t) /\ UNCHANGED <<storageUp, sent, minted, page, reading>>
  BY DEF handleDiscard
<1>2. snapshot[t] # None => snapshot[t] \in Seq(Items)  BY DEF TypeOK
<1>3. UNCHANGED <<storage, slice>> \/ \E l \in Seq(Items) : KeepLayout(t, l)  BY <1>1, <1>2
<1>4. sent' \subseteq {d \in Dashboard : d.name = FileName}  BY <1>1 DEF TypeOK
<1> QED BY <1>1, <1>3, <1>4, EndTyped

LEMMA FinitePlacements == Cardinality(Placements) \in Nat
<1>1. TemplateLayout \in Seq(Items) /\ IsFiniteSet(NewPlacements)  BY DashboardValues
<1>2. IsFiniteSet(1..Len(TemplateLayout))  BY <1>1, FS_Interval
<1> DEFINE f == [k \in 1..Len(TemplateLayout) |-> TemplateLayout[k].i]
<1>3. TemplatePlacements = {f[k] : k \in 1..Len(TemplateLayout)}
  <2>1. DOMAIN TemplateLayout = 1..Len(TemplateLayout)  BY <1>1
  <2> QED BY <2>1 DEF TemplatePlacements
<1>4. f \in Surjection(1..Len(TemplateLayout), TemplatePlacements)
  <2> QED BY <1>3 DEF Surjection
<1>5. IsFiniteSet(TemplatePlacements)  BY <1>2, <1>4, FS_Surjection
<1>6. IsFiniteSet(Placements)  BY <1>1, <1>5, FS_Union DEF Placements
<1> QED BY <1>6, FS_CardinalityType

LEMMA InitTyped == Init => TypeOK
<1> SUFFICES ASSUME Init PROVE TypeOK  OBVIOUS
<1>1. stored \in InitialStored /\ storedActive \in IF stored = {} THEN {None} ELSE {d.id : d \in stored}
  BY DEF Init
<1>2. stored \subseteq Dashboard  BY <1>1, DashboardValues
<1>3. storedActive \in Ids \cup {None}  BY <1>1, <1>2 DEF Dashboard
<1>4. NoDrafts \in [Placements -> Configs \cup {NoDraft}]  BY DEF NoDrafts
<1> QED BY <1>2, <1>3, <1>4 DEF Init, TypeOK

LEMMA StepsTyped == TypeOK /\ [Next]_vars => TypeOK'
<1> SUFFICES ASSUME TypeOK, [Next]_vars PROVE TypeOK'  OBVIOUS
<1>1. CASE UNCHANGED vars
  <2>1. SliceTyped /\ StorageTyped /\ FileTyped /\ ViewTyped /\ EditTyped  BY TypeParts
  <2>2. UNCHANGED <<list, activeId, active, stored, storedActive, holders, storageUp, sent, minted,
                    page, reading, snapshot, snapshotOf, editMode, drafts>>
    BY <1>1 DEF vars, slice, storage, view
  <2>3. SliceTyped' /\ StorageTyped' /\ FileTyped' /\ ViewTyped' /\ EditTyped'
    BY <2>1, <2>2 DEF SliceTyped, StorageTyped, FileTyped, ViewTyped, EditTyped
  <2> QED BY <2>3, TypeParts
<1>2. CASE Next
  <2>1. PICK t \in Tabs : \/ Load(t) \/ Mount(t) \/ Leave(t) \/ HydrateAnswer(t)
                         \/ SidebarStep(t) \/ SessionStep(t)
    BY <1>2 DEF Next
  <2>2. CASE Load(t)  BY <2>2, LoadTyped
  <2>3. CASE Mount(t) \/ Leave(t)  BY <2>3, PageTyped
  <2>4. CASE HydrateAnswer(t)  BY <2>4, HydrateTyped
  <2>5. CASE SidebarStep(t)
    <3>1. ASSUME NEW name \in PlainNames, createDashboard(t, name) PROVE TypeOK'
      BY <3>1, CreateTyped
    <3>2. ASSUME NEW id, NEW name \in Typed, renameDashboard(t, id, name) PROVE TypeOK'
      BY <3>2, RenameTyped
    <3>3. ASSUME NEW id, deleteDashboard(t, id) PROVE TypeOK'  BY <3>3, DeleteTyped
    <3>4. ASSUME NEW id, duplicateDashboard(t, id) PROVE TypeOK'  BY <3>4, DuplicateTyped
    <3>5. ASSUME NEW id \in Ids, setActiveDashboardById(t, id) PROVE TypeOK'  BY <3>5, SwitchTyped
    <3> QED BY <2>5, <3>1, <3>2, <3>3, <3>4, <3>5 DEF SidebarStep
  <2>6. CASE SessionStep(t)
    <3>1. ASSUME handleEdit(t) PROVE TypeOK'  BY <3>1, EditIsTyped
    <3>2. ASSUME Escape(t) PROVE TypeOK'  BY <3>2, DraftTyped DEF Escape
    <3>3. ASSUME handleSave(t) PROVE TypeOK'  BY <3>3, SaveTyped
    <3>4. ASSUME handleDiscard(t) PROVE TypeOK'  BY <3>4, DiscardTyped
    <3>5. ASSUME NEW c \in Components \ Hidden, addComponentToLayout(t, c) PROVE TypeOK'
      BY <3>5, AddTyped
    <3>6. ASSUME NEW c \in Components \ Hidden, NEW at \in 0..Cardinality(Placements),
                 insertComponentAt(t, c, at)
          PROVE  TypeOK'
      BY <3>6, InsertTyped, FinitePlacements
    <3>7. ASSUME NEW p \in Placements, NEW to \in 0..Cardinality(Placements), moveLayoutItem(t, p, to)
          PROVE  TypeOK'
      BY <3>7, MoveTyped, FinitePlacements
    <3>8. ASSUME NEW p \in Placements, removeComponentFromLayout(t, p) PROVE TypeOK'
      BY <3>8, RemoveTyped
    <3>9. ASSUME NEW p \in Placements, duplicateLayoutItem(t, p) PROVE TypeOK'  BY <3>9, CopyTyped
    <3>10. ASSUME NEW p \in Placements, discardDraft(t, p) PROVE TypeOK'
      BY <3>10, DraftTyped DEF discardDraft
    <3>11. ASSUME NEW p \in Placements, commitDraft(t, p) PROVE TypeOK'  BY <3>11, CommitTyped
    <3>12. ASSUME NEW p \in Placements, NEW config \in Configs, setDraftConfig(t, p, config)
           PROVE  TypeOK'
      BY <3>12, DraftTyped DEF setDraftConfig
    <3> QED BY <2>6, <3>1, <3>2, <3>3, <3>4, <3>5, <3>6, <3>7, <3>8, <3>9, <3>10, <3>11, <3>12
            DEF SessionStep
  <2> QED BY <2>1, <2>2, <2>3, <2>4, <2>5, <2>6
<1> QED BY <1>1, <1>2

\* Every variable keeps its type.
THEOREM TypeCorrect == Spec => []TypeOK
BY InitTyped, StepsTyped, PTL DEF Spec

\* A widget dropped on another lands right before it, and every other widget keeps its
\* place in the order, wherever it stood and wherever it is dropped
\* (moveLayoutItem of dashboardSlice.ts).
THEOREM MovesLand == Spec => MoveLandsBefore
<1>1. ASSUME TypeOK, NEW t \in Tabs, NEW p \in Placements, NEW to \in 0..Cardinality(Placements),
             moveLayoutItem(t, p, to)
      PROVE  LET before == Layout(t)
                 after == active'[t].layout
                 Others(layout) == filter(layout, {item \in Items : item.i # p})
             IN /\ Others(after) = Others(before)
                /\ IF to >= Len(before) THEN after[Len(after)].i = p
                   ELSE \E k \in 1..(Len(after) - 1) :
                          after[k].i = p /\ after[k + 1] = before[to + 1]
  <2> DEFINE s == Layout(t)
             k == IndexOf(s, p)
             kept == {item \in Items : item.i # p}
             l == Moved(s, k - 1, to)
             after == active'[t].layout
  <2>1. Shown(t) /\ Has(s, p) /\ l # s /\ StoreLayout(t, l)  BY <1>1 DEF moveLayoutItem
  <2>2. to \in Nat  BY FinitePlacements
  <2>3. HasMoved(l, Items, s, k, to, kept)  BY <1>1, <2>1, <2>2, MoveLayout
  <2>4. s \in Seq(Items)  BY <1>1, <2>1, ShownLayout
  <2>5. k \in 1..Len(s) /\ s[k].i = p  BY <2>1, <2>4, IndexIs
  <2>6. after = l
    <3>1. active' = [active EXCEPT ![t] = [active[t] EXCEPT !.layout = l]]
      BY <2>1 DEF StoreLayout, SetLayout
    <3>2. active[t] \in Dashboard /\ active \in [Tabs -> Dashboard \cup {NoDashboard}]
      BY <1>1, <2>1, ShownLayout DEF TypeOK
    <3> HIDE DEF l
    <3>3. [active[t] EXCEPT !.layout = l].layout = l  BY <3>2 DEF Dashboard
    <3> QED BY <3>1, <3>2, <3>3
  <2> HIDE DEF s, k, kept, l, after
  <2>7. /\ Len(l) = Len(s) /\ filter(l, kept) = filter(s, kept)
        /\ to >= Len(s) => l[Len(s)] = s[k]
        /\ to < Len(s) => \E j \in 1..(Len(s) - 1) : l[j] = s[k] /\ l[j + 1] = s[to + 1]
    BY <2>1, <2>3 DEF HasMoved
  <2>8. /\ filter(after, kept) = filter(s, kept)
        /\ IF to >= Len(s) THEN after[Len(after)].i = p
           ELSE \E j \in 1..(Len(after) - 1) : after[j].i = p /\ after[j + 1] = s[to + 1]
    BY <2>2, <2>4, <2>5, <2>6, <2>7
  <2> QED BY <2>8 DEF s, after, kept
<1>2. TypeOK /\ [Next]_vars =>
        [\A t \in Tabs, p \in Placements : \A to \in 0..Cardinality(Placements) :
           moveLayoutItem(t, p, to) =>
             LET before == Layout(t)
                 after == active'[t].layout
                 Others(layout) == filter(layout, {item \in Items : item.i # p})
             IN /\ Others(after) = Others(before)
                /\ IF to >= Len(before) THEN after[Len(after)].i = p
                   ELSE \E k \in 1..(Len(after) - 1) :
                          after[k].i = p /\ after[k + 1] = before[to + 1]]_vars
  BY <1>1
<1> QED BY <1>2, TypeCorrect, PTL DEF Spec, MoveLandsBefore

-----------------------------------------------------------------------------
(* A browser with one tab                                                  *)

IdsOf(D) == {d.id : d \in D}

\* What localStorage and the list of the only tab agree on: the ids, and the active one,
\* which is one of them.
Whole(t) ==
  /\ stored # {} => storedActive \in IdsOf(stored)
  /\ page[t] = "unloaded" => list[t] = {}
  /\ page[t] # "unloaded" => IdsOf(stored) = IdsOf(list[t]) /\ storedActive = activeId[t]

OneTab ==
  /\ \A t \in Tabs : page[t] = "unloaded" => reading[t] = 0
  /\ \A t \in Tabs : storageUp /\ Alone(t) => Whole(t)

\* A step changes no layout but the active dashboard's.
LayoutsKept(t) ==
  \A d \in list[t], e \in list'[t] : d.id = e.id /\ d.layout # e.layout => d.id = activeId[t]

\* A step that leaves the ids as they are, and one that stores the new list.
LEMMA KeepsIds ==
  ASSUME NEW t, Whole(t), page[t] # "unloaded", page'[t] # "unloaded",
         IdsOf(stored') = IdsOf(stored), IdsOf(list'[t]) = IdsOf(list[t]),
         storedActive' = storedActive, activeId'[t] = activeId[t]
  PROVE  Whole(t)'
BY DEF Whole, IdsOf

LEMMA StoresIds ==
  ASSUME NEW t, page'[t] # "unloaded", stored' = list'[t], storedActive' = activeId'[t],
         list'[t] # {} => activeId'[t] \in IdsOf(list'[t])
  PROVE  Whole(t)'
BY DEF Whole, IdsOf

\* Without a dashboard on screen the only tab has no dashboard at all.
LEMMA NoneIsEmpty ==
  ASSUME Slices, NEW t \in Tabs, Whole(t), active[t] = NoDashboard
  PROVE  list[t] = {}
<1>1. ~ \E d \in list[t] : d.id = activeId[t]  BY OnScreen
<1>2. CASE page[t] = "unloaded"  BY <1>2 DEF Whole
<1>3. CASE page[t] # "unloaded"
  <2>1. IdsOf(stored) = IdsOf(list[t]) /\ storedActive = activeId[t]  BY <1>3 DEF Whole
  <2>2. activeId[t] \notin IdsOf(list[t])  BY <1>1 DEF IdsOf
  <2>3. stored = {}  BY <2>1, <2>2 DEF Whole
  <2> QED BY <2>1, <2>3 DEF IdsOf
<1> QED BY <1>2, <1>3

\* set() on the slice, seen from the tab.
LEMMA SetIs ==
  ASSUME TypeOK, NEW t \in Tabs, NEW D, NEW id, NEW d, SetSlice(t, D, id, d)
  PROVE  list'[t] = D /\ activeId'[t] = id
BY DEF TypeOK, SetSlice

LEMMA ShowLoads ==
  ASSUME TypeOK, NEW t \in Tabs, page[t] # "unloaded", Show(t) \/ UNCHANGED view
  PROVE  page'[t] # "unloaded" /\ \A u \in Tabs \ {t} : page'[u] = page[u] /\ reading'[u] = reading[u]
BY DEF TypeOK, Show, view

LEMMA LoadWhole ==
  ASSUME TypeOK, NEW t \in Tabs, storageUp, Whole(t), Load(t)
  PROVE  Whole(t)'
<1> DEFINE D == {repairSeaDemoDashboard(d) : d \in stored}
<1>1. /\ SetSlice(t, D, storedActive, deriveActive(D, storedActive))
      /\ IF D # stored THEN persistList(t, D) ELSE stored' = stored
      /\ page' = [page EXCEPT ![t] = "elsewhere"] /\ storedActive' = storedActive
  BY DEF Load
<1>2. IdsOf(D) = IdsOf(stored)
  <2>1. \A d \in stored : repairSeaDemoDashboard(d).id = d.id
    <3>1. \A d \in stored : d \in Dashboard  BY DEF TypeOK
    <3> QED BY <3>1 DEF repairSeaDemoDashboard
  <2> QED BY <2>1 DEF IdsOf
<1> HIDE DEF D
<1>3. list'[t] = D /\ activeId'[t] = storedActive  BY <1>1, SetIs
<1>4. stored' = D  BY <1>1 DEF persistList
<1>5. page'[t] # "unloaded"  BY <1>1 DEF TypeOK
<1>6. D # {} => storedActive \in IdsOf(D)  BY <1>2 DEF Whole, IdsOf
<1> QED BY <1>1, <1>3, <1>4, <1>5, <1>6, StoresIds

LEMMA HydrateWhole ==
  ASSUME TypeOK, Slices, NEW t \in Tabs, storageUp, Whole(t), page[t] # "unloaded", HydrateAnswer(t)
  PROVE  Whole(t)' /\ LayoutsKept(t)
<1>1. UNCHANGED page  BY DEF HydrateAnswer
<1>2. CASE active[t] # NoDashboard
  <2>1. UNCHANGED <<list, activeId, stored, storedActive>>
    BY <1>2 DEF HydrateAnswer, slice, storage
  <2>2. Whole(t)'  BY <1>1, <2>1, KeepsIds
  <2>3. Distinct(list[t])  BY DEF Slices, GoodList
  <2> QED BY <2>1, <2>2, <2>3 DEF LayoutsKept, Distinct
<1>3. CASE active[t] = NoDashboard
  <2>1. PICK d : setActiveDashboard(t, d)  BY <1>3 DEF HydrateAnswer
  <2> DEFINE D == IF \E e \in list[t] : e.id = d.id THEN Replace(list[t], d) ELSE list[t] \cup {d}
  <2>2. list[t] = {}  BY <1>3, NoneIsEmpty
  <2>3. SetSlice(t, D, d.id, d) /\ persistList(t, D) /\ persistActiveId(d.id)
    BY <2>1 DEF setActiveDashboard
  <2>4. d.id \in IdsOf(D)  BY <2>2 DEF IdsOf
  <2> HIDE DEF D
  <2>5. list'[t] = D /\ activeId'[t] = d.id  BY <2>3, SetIs
  <2>6. stored' = D /\ storedActive' = d.id  BY <2>3 DEF persistList, persistActiveId
  <2>7. Whole(t)'  BY <1>1, <2>4, <2>5, <2>6, StoresIds
  <2> QED BY <2>2, <2>7 DEF LayoutsKept
<1> QED BY <1>2, <1>3

LEMMA EnterWhole ==
  ASSUME TypeOK, Slices, NEW t \in Tabs, storageUp, page[t] # "unloaded", NEW d, d.id \in NewDashboards,
         d.id \notin minted, SetSlice(t, list[t] \cup {d}, d.id, d), persistList(t, list[t] \cup {d}),
         persistActiveId(d.id), Show(t) \/ UNCHANGED view
  PROVE  Whole(t)' /\ LayoutsKept(t)
<1> DEFINE D == list[t] \cup {d}
           id == d.id
<1>1. list'[t] = D /\ activeId'[t] = id  BY SetIs
<1>2. stored' = D /\ storedActive' = id  BY DEF persistList, persistActiveId
<1>3. id \in IdsOf(D)  BY DEF IdsOf
<1>4. page'[t] # "unloaded"  BY ShowLoads
<1>5. Whole(t)'
  <2> HIDE DEF D, id
  <2> QED BY <1>1, <1>2, <1>3, <1>4, StoresIds
<1>6. Distinct(list[t]) /\ \A e \in list[t] : e.id # d.id
  BY DEF Slices, GoodList, Known
<1> QED BY <1>1, <1>5, <1>6 DEF LayoutsKept, Distinct

LEMMA CreateWhole ==
  ASSUME TypeOK, Slices, NEW t \in Tabs, storageUp, NEW name, createDashboard(t, name)
  PROVE  Whole(t)' /\ LayoutsKept(t)
<1>1. PICK id \in NewDashboards :
        LET d == [id |-> id, name |-> name, layout |-> <<>>]
        IN /\ page[t] # "unloaded" /\ Mint(id)
           /\ SetSlice(t, list[t] \cup {d}, id, d)
           /\ persistList(t, list[t] \cup {d}) /\ persistActiveId(id) /\ Show(t)
  BY DEF createDashboard
<1> DEFINE d == [id |-> id, name |-> name, layout |-> <<>>]
<1>2. /\ d.id \in NewDashboards /\ d.id \notin minted /\ page[t] # "unloaded"
      /\ SetSlice(t, list[t] \cup {d}, d.id, d)
      /\ persistList(t, list[t] \cup {d}) /\ persistActiveId(d.id) /\ Show(t)
  BY <1>1 DEF Mint
<1> HIDE DEF d
<1> QED BY <1>2, EnterWhole

LEMMA DuplicateWhole ==
  ASSUME TypeOK, Slices, NEW t \in Tabs, storageUp, NEW oldId, duplicateDashboard(t, oldId)
  PROVE  Whole(t)' /\ LayoutsKept(t)
<1>1. PICK source \in list[t], id \in NewDashboards, name \in PlainNames :
        LET d == [id |-> id, name |-> name, layout |-> source.layout]
        IN /\ page[t] # "unloaded" /\ Mint(id)
           /\ SetSlice(t, list[t] \cup {d}, id, d)
           /\ persistList(t, list[t] \cup {d}) /\ persistActiveId(id) /\ UNCHANGED view
  BY DEF duplicateDashboard
<1> DEFINE d == [id |-> id, name |-> name, layout |-> source.layout]
<1>2. /\ d.id \in NewDashboards /\ d.id \notin minted /\ page[t] # "unloaded"
      /\ SetSlice(t, list[t] \cup {d}, d.id, d)
      /\ persistList(t, list[t] \cup {d}) /\ persistActiveId(d.id) /\ UNCHANGED view
  BY <1>1 DEF Mint
<1> HIDE DEF d
<1> QED BY <1>2, EnterWhole

LEMMA RenameWhole ==
  ASSUME TypeOK, Slices, NEW t \in Tabs, storageUp, Whole(t), NEW id, NEW name, renameDashboard(t, id, name)
  PROVE  Whole(t)' /\ LayoutsKept(t)
<1> DEFINE D == Renamed(list[t], id, name)
<1>1. /\ page[t] # "unloaded" /\ SetSlice(t, D, activeId[t], deriveActive(D, activeId[t]))
      /\ persistList(t, D) /\ storedActive' = storedActive /\ UNCHANGED view
  BY DEF renameDashboard
<1>2. list'[t] = D /\ activeId'[t] = activeId[t] /\ stored' = D
  <2> HIDE DEF D
  <2> QED BY <1>1, SetIs DEF persistList
<1>3. \A d \in list[t] : d \in Dashboard  BY DEF TypeOK
<1>4. /\ \A d \in list[t] : \E e \in D : e.id = d.id /\ e.layout = d.layout
      /\ \A e \in D : \E d \in list[t] : e.id = d.id /\ e.layout = d.layout
  <2> DEFINE g(d) == IF d.id = id THEN [d EXCEPT !.name = name] ELSE d
  <2>1. \A d \in list[t] : g(d).id = d.id /\ g(d).layout = d.layout  BY <1>3 DEF Dashboard
  <2>2. D = {g(d) : d \in list[t]}  BY DEF Renamed
  <2> HIDE DEF g, D
  <2> QED BY <2>1, <2>2
<1> HIDE DEF D
<1>5. IdsOf(D) = IdsOf(list[t])  BY <1>4 DEF IdsOf
<1>6. IdsOf(stored) = IdsOf(list[t])  BY <1>1 DEF Whole
<1>7. UNCHANGED page  BY <1>1 DEF view
<1>8. Whole(t)'  BY <1>1, <1>2, <1>5, <1>6, <1>7, KeepsIds
<1>9. Distinct(list[t])  BY DEF Slices, GoodList
<1>10. LayoutsKept(t)
  <2> SUFFICES ASSUME NEW d \in list[t], NEW e \in D, d.id = e.id PROVE d.layout = e.layout
    BY <1>2 DEF LayoutsKept
  <2>1. PICK c \in list[t] : e.id = c.id /\ e.layout = c.layout  BY <1>4
  <2> QED BY <1>9, <2>1 DEF Distinct
<1> QED BY <1>8, <1>10

LEMMA DeleteWhole ==
  ASSUME TypeOK, Slices, NEW t \in Tabs, storageUp, Whole(t), NEW id, deleteDashboard(t, id)
  PROVE  Whole(t)' /\ LayoutsKept(t)
<1> DEFINE D == {d \in list[t] : d.id # id}
           next == IF activeId[t] # id THEN {activeId[t]}
                   ELSE IF D = {} THEN {None} ELSE {d.id : d \in D}
<1>1. PICK newId \in next :
        /\ SetSlice(t, D, newId, deriveActive(D, newId)) /\ persistList(t, D)
        /\ persistActiveId(newId) /\ UNCHANGED view
  BY DEF deleteDashboard
<1>2. page[t] # "unloaded" /\ \E d \in list[t] : d.id = id  BY DEF deleteDashboard
<1>3. activeId[t] \in IdsOf(list[t])
  <2>1. IdsOf(stored) = IdsOf(list[t]) /\ storedActive = activeId[t]  BY <1>2 DEF Whole
  <2>2. stored # {}  BY <1>2, <2>1 DEF IdsOf
  <2> QED BY <2>1, <2>2 DEF Whole
<1>4. D # {} => newId \in IdsOf(D)
  <2>1. CASE activeId[t] # id
    <3>1. newId = activeId[t]  BY <2>1
    <3> QED BY <1>3, <2>1, <3>1 DEF IdsOf
  <2>2. CASE activeId[t] = id  BY <2>2 DEF IdsOf
  <2> QED BY <2>1, <2>2
<1>5. D \subseteq list[t]  OBVIOUS
<1> HIDE DEF D, next
<1>6. list'[t] = D /\ activeId'[t] = newId /\ stored' = D /\ storedActive' = newId
  BY <1>1, SetIs DEF persistList, persistActiveId
<1>7. UNCHANGED page  BY <1>1 DEF view
<1>8. Whole(t)'  BY <1>2, <1>4, <1>6, <1>7, StoresIds
<1>9. Distinct(list[t])  BY DEF Slices, GoodList
<1> QED BY <1>5, <1>6, <1>8, <1>9 DEF LayoutsKept, Distinct

LEMMA SwitchWhole ==
  ASSUME TypeOK, Slices, NEW t \in Tabs, storageUp, Whole(t), NEW id, setActiveDashboardById(t, id)
  PROVE  Whole(t)' /\ LayoutsKept(t)
<1>1. /\ page[t] # "unloaded" /\ \E d \in list[t] : d.id = id
      /\ persistActiveId(id) /\ SetSlice(t, list[t], id, deriveActive(list[t], id))
      /\ Show(t) /\ stored' = stored
  BY DEF setActiveDashboardById
<1>2. list'[t] = list[t] /\ activeId'[t] = id /\ storedActive' = id
  BY <1>1, SetIs DEF persistActiveId
<1>3. page'[t] # "unloaded"  BY <1>1, ShowLoads
<1>4. IdsOf(stored) = IdsOf(list[t]) /\ id \in IdsOf(list[t])  BY <1>1 DEF Whole, IdsOf
<1>5. Whole(t)'  BY <1>1, <1>2, <1>3, <1>4 DEF Whole, IdsOf
<1>6. Distinct(list[t])  BY DEF Slices, GoodList
<1> QED BY <1>2, <1>5, <1>6 DEF LayoutsKept, Distinct

\* The operations on the layout on screen, stored or not.
LEMMA LayoutWhole ==
  ASSUME TypeOK, Slices, NEW t \in Tabs, storageUp, Whole(t), Shown(t), UNCHANGED page,
         NEW l, StoreLayout(t, l) \/ KeepLayout(t, l)
  PROVE  Whole(t)' /\ LayoutsKept(t)
<1> DEFINE d == [active[t] EXCEPT !.layout = l]
           D == Replace(list[t], d)
<1>1. page[t] # "unloaded" /\ active[t] # NoDashboard  BY DEF Shown
<1>2. active[t] \in list[t] /\ active[t].id = activeId[t]  BY <1>1, OnScreen
<1>3. d.id = activeId[t]
  <2>1. active[t] \in Dashboard  BY <1>1 DEF TypeOK
  <2> QED BY <1>2, <2>1 DEF Dashboard
<1>4. /\ list' = [list EXCEPT ![t] = D] /\ activeId' = activeId /\ storedActive' = storedActive
      /\ stored' = D \/ stored' = stored
  BY DEF StoreLayout, KeepLayout, SetLayout, persistList, TypeOK
<1>5. list'[t] = D  BY <1>4 DEF TypeOK
<1> HIDE DEF d
<1>6. IdsOf(D) = IdsOf(list[t])  BY DEF Replace, IdsOf
<1>7. \A e \in D : e = d \/ e \in list[t]  BY DEF Replace
<1> HIDE DEF D
<1>8. IdsOf(stored) = IdsOf(list[t])  BY <1>1 DEF Whole
<1>9. IdsOf(stored') = IdsOf(stored)  BY <1>4, <1>6, <1>8
<1>10. Whole(t)'  BY <1>1, <1>4, <1>5, <1>6, <1>9, KeepsIds
<1>11. Distinct(list[t])  BY DEF Slices, GoodList
<1> QED BY <1>3, <1>5, <1>7, <1>10, <1>11 DEF LayoutsKept, Distinct

\* A step that leaves the dashboards alone.
LEMMA StillWhole ==
  ASSUME Slices, NEW t \in Tabs, Whole(t), page[t] # "unloaded", page'[t] # "unloaded",
         UNCHANGED <<storage, slice>>
  PROVE  Whole(t)' /\ LayoutsKept(t)
<1>1. UNCHANGED <<list, activeId, stored, storedActive>>  BY DEF storage, slice
<1>2. Whole(t)'  BY <1>1, KeepsIds
<1>3. Distinct(list[t])  BY DEF Slices, GoodList
<1> QED BY <1>1, <1>2, <1>3 DEF LayoutsKept, Distinct

\* What a step of a tab does when it is the only one.
LEMMA TabStep ==
  ASSUME TypeOK, Slices, NEW t \in Tabs, storageUp, Whole(t), page[t] = "unloaded" => reading[t] = 0,
         \/ Load(t) \/ Mount(t) \/ Leave(t) \/ HydrateAnswer(t) \/ SidebarStep(t) \/ SessionStep(t)
  PROVE  Whole(t)' /\ (~Load(t) => LayoutsKept(t))
<1>1. CASE Load(t)  BY <1>1, LoadWhole
<1>2. CASE Mount(t)
  <2>1. page[t] # "unloaded" /\ page'[t] # "unloaded" /\ UNCHANGED <<storage, slice>>
    BY <1>2, ShowLoads DEF Mount
  <2> QED BY <2>1, StillWhole
<1>3. CASE Leave(t)
  <2>1. page[t] # "unloaded" /\ page'[t] # "unloaded" /\ UNCHANGED <<storage, slice>>
    BY <1>3 DEF Leave, TypeOK
  <2> QED BY <2>1, StillWhole
<1>4. CASE HydrateAnswer(t)
  <2>1. page[t] # "unloaded"  BY <1>4 DEF HydrateAnswer
  <2> QED BY <1>4, <2>1, HydrateWhole
<1>5. CASE SidebarStep(t)
  <2>1. \/ \E name : createDashboard(t, name)
        \/ \E id, name : renameDashboard(t, id, name)
        \/ \E id : deleteDashboard(t, id) \/ duplicateDashboard(t, id) \/ setActiveDashboardById(t, id)
    BY <1>5 DEF SidebarStep
  <2> QED BY <2>1, CreateWhole, RenameWhole, DeleteWhole, DuplicateWhole, SwitchWhole
<1>6. CASE SessionStep(t)
  <2>1. \/ handleEdit(t) \/ Escape(t) \/ handleSave(t) \/ handleDiscard(t)
        \/ \E c, at, p, config :
              \/ addComponentToLayout(t, c) \/ insertComponentAt(t, c, at)
              \/ moveLayoutItem(t, p, at) \/ removeComponentFromLayout(t, p)
              \/ duplicateLayoutItem(t, p) \/ discardDraft(t, p) \/ commitDraft(t, p)
              \/ setDraftConfig(t, p, config)
    BY <1>6 DEF SessionStep
  <2>2. \/ page[t] = "dashboard" /\ UNCHANGED page /\ UNCHANGED <<storage, slice>>
        \/ Shown(t) /\ UNCHANGED page /\ \E l : StoreLayout(t, l) \/ KeepLayout(t, l)
    <3>1. ASSUME handleEdit(t) \/ Escape(t)
          PROVE  page[t] = "dashboard" /\ UNCHANGED page /\ UNCHANGED <<storage, slice>>
      BY <3>1 DEF handleEdit, Escape, Shown, view
    <3>2. ASSUME handleSave(t) \/ handleDiscard(t)
          PROVE  /\ Shown(t) /\ UNCHANGED page
                 /\ UNCHANGED <<storage, slice>> \/ \E l : KeepLayout(t, l)
      BY <3>2 DEF handleSave, handleDiscard
    <3>3. ASSUME NEW c, NEW at, NEW p,
                 \/ addComponentToLayout(t, c) \/ insertComponentAt(t, c, at)
                 \/ moveLayoutItem(t, p, at) \/ removeComponentFromLayout(t, p)
                 \/ duplicateLayoutItem(t, p)
          PROVE  Shown(t) /\ UNCHANGED page /\ \E l : StoreLayout(t, l)
      BY <3>3 DEF addComponentToLayout, insertComponentAt, moveLayoutItem, removeComponentFromLayout,
                  duplicateLayoutItem, view
    <3>4. ASSUME NEW p, NEW config, discardDraft(t, p) \/ setDraftConfig(t, p, config)
          PROVE  page[t] = "dashboard" /\ UNCHANGED page /\ UNCHANGED <<storage, slice>>
      BY <3>4 DEF discardDraft, setDraftConfig, Shown, view
    <3>5. ASSUME NEW p, commitDraft(t, p)
          PROVE  Shown(t) /\ UNCHANGED page /\ \E l : KeepLayout(t, l)
      BY <3>5 DEF commitDraft, view
    <3> QED BY <2>1, <3>1, <3>2, <3>3, <3>4, <3>5 DEF Shown
  <2>3. CASE page[t] = "dashboard" /\ UNCHANGED page /\ UNCHANGED <<storage, slice>>
    BY <2>3, StillWhole
  <2>4. CASE Shown(t) /\ UNCHANGED page /\ \E l : StoreLayout(t, l) \/ KeepLayout(t, l)
    BY <2>4, LayoutWhole
  <2> QED BY <2>2, <2>3, <2>4
<1> QED BY <1>1, <1>2, <1>3, <1>4, <1>5, <1>6

\* What a step of one tab leaves alone in the others, and a page that is not loaded
\* can only be loaded.
LEMMA OtherTabs ==
  ASSUME TypeOK, NEW u \in Tabs, page[u] = "unloaded" => reading[u] = 0,
         \/ Load(u) \/ Mount(u) \/ Leave(u) \/ HydrateAnswer(u) \/ SidebarStep(u) \/ SessionStep(u)
  PROVE  /\ \A t \in Tabs \ {u} : page'[t] = page[t] /\ reading'[t] = reading[t] /\ list'[t] = list[t]
         /\ page'[u] # "unloaded"
         /\ storageUp' = storageUp
<1>1. CASE Load(u)  BY <1>1 DEF Load, SetSlice, TypeOK
<1>2. CASE Mount(u) \/ Leave(u)  BY <1>2 DEF Mount, Leave, Show, slice, TypeOK
<1>3. CASE HydrateAnswer(u)
  <2>1. page' = page /\ storageUp' = storageUp /\ reading' = [reading EXCEPT ![u] = reading[u] - 1]
        /\ page[u] # "unloaded"
    BY <1>3 DEF HydrateAnswer
  <2>2. list' = list \/ \E D : list' = [list EXCEPT ![u] = D]
    BY <1>3 DEF HydrateAnswer, setActiveDashboard, SetSlice, slice
  <2> QED BY <2>1, <2>2 DEF TypeOK
<1>4. CASE SidebarStep(u)
  <2>1. /\ page[u] # "unloaded"
        /\ Show(u) \/ UNCHANGED view
        /\ storageUp' = storageUp /\ \E D : list' = [list EXCEPT ![u] = D]
    BY <1>4 DEF SidebarStep, createDashboard, renameDashboard, deleteDashboard, duplicateDashboard,
                setActiveDashboardById, SetSlice
  <2> QED BY <2>1, ShowLoads DEF TypeOK
<1>5. CASE SessionStep(u)
  <2>1. page[u] = "dashboard" /\ UNCHANGED <<page, reading, storageUp>>
    BY <1>5 DEF SessionStep, handleEdit, Escape, handleSave, handleDiscard, addComponentToLayout,
                insertComponentAt, moveLayoutItem, removeComponentFromLayout, duplicateLayoutItem,
                discardDraft, commitDraft, setDraftConfig, Shown, view
  <2>2. list' = list \/ \E D : list' = [list EXCEPT ![u] = D]
    BY <1>5 DEF SessionStep, handleEdit, Escape, handleSave, handleDiscard, addComponentToLayout,
                insertComponentAt, moveLayoutItem, removeComponentFromLayout, duplicateLayoutItem,
                discardDraft, commitDraft, setDraftConfig, StoreLayout, KeepLayout, SetLayout, slice
  <2> QED BY <2>1, <2>2 DEF TypeOK
<1> QED BY <1>1, <1>2, <1>3, <1>4, <1>5

LEMMA OneTabInit == Init => OneTab
<1> SUFFICES ASSUME Init, NEW t \in Tabs PROVE reading[t] = 0 /\ Whole(t)  BY DEF OneTab
<1>1. storedActive \in IF stored = {} THEN {None} ELSE {d.id : d \in stored}  BY DEF Init
<1> QED BY <1>1 DEF Init, Whole, IdsOf

LEMMA OneTabSteps == TypeOK /\ Slices /\ OneTab /\ [Next]_vars => OneTab'
<1> SUFFICES ASSUME TypeOK, Slices, OneTab, [Next]_vars PROVE OneTab'  OBVIOUS
<1>1. CASE UNCHANGED vars
  <2>1. UNCHANGED <<stored, storedActive, storageUp, page, list, activeId, reading>>
    BY <1>1 DEF vars, storage, slice, view
  <2> QED BY <2>1 DEF OneTab, Whole, Alone, IdsOf
<1>2. CASE Next
  <2>1. PICK u \in Tabs : \/ Load(u) \/ Mount(u) \/ Leave(u) \/ HydrateAnswer(u)
                         \/ SidebarStep(u) \/ SessionStep(u)
    BY <1>2 DEF Next
  <2>2. page[u] = "unloaded" => reading[u] = 0  BY DEF OneTab
  <2>3. /\ \A t \in Tabs \ {u} : page'[t] = page[t] /\ reading'[t] = reading[t]
        /\ page'[u] # "unloaded"
        /\ storageUp' = storageUp
    BY <2>1, <2>2, OtherTabs
  <2>4. \A t \in Tabs : page'[t] = "unloaded" => reading'[t] = 0  BY <2>3 DEF OneTab
  <2>5. ASSUME NEW t \in Tabs, storageUp', Alone(t)' PROVE Whole(t)'
    <3>1. t = u  BY <2>3, <2>5 DEF Alone
    <3>2. Alone(u) /\ storageUp  BY <2>3, <2>5, <3>1 DEF Alone
    <3>3. Whole(u)  BY <3>2 DEF OneTab
    <3> QED BY <2>1, <2>2, <3>1, <3>2, <3>3, TabStep
  <2> QED BY <2>4, <2>5 DEF OneTab
<1> QED BY <1>1, <1>2

\* In a browser with one tab whose storage works, no step but a load changes the layout
\* of a dashboard that is not on screen (dashboardSlice.ts, DashboardView.tsx): a mount
\* read that ends finds either a dashboard on screen, or no dashboard at all.
THEOREM OthersUntouched == Spec => OnlyShownChanges
<1>1. TypeOK /\ Slices /\ OneTab /\ [Next]_vars =>
        [\A t \in Tabs :
           storageUp /\ Alone(t) /\ ~Load(t) =>
             \A d \in list[t], e \in list'[t] :
               d.id = e.id /\ d.layout # e.layout => d.id = activeId[t]]_vars
  <2> SUFFICES ASSUME TypeOK, Slices, OneTab, Next, NEW t \in Tabs, storageUp, Alone(t), ~Load(t)
               PROVE  \A d \in list[t], e \in list'[t] :
                        d.id = e.id /\ d.layout # e.layout => d.id = activeId[t]
    OBVIOUS
  <2>1. PICK u \in Tabs : \/ Load(u) \/ Mount(u) \/ Leave(u) \/ HydrateAnswer(u)
                         \/ SidebarStep(u) \/ SessionStep(u)
    BY DEF Next
  <2>2. page[u] = "unloaded" => reading[u] = 0  BY DEF OneTab
  <2>3. CASE u = t
    <3>1. Whole(t)  BY DEF OneTab
    <3>2. LayoutsKept(t)  BY <2>1, <2>2, <2>3, <3>1, TabStep
    <3> QED BY <3>2 DEF LayoutsKept
  <2>4. CASE u # t
    <3>1. list'[t] = list[t]  BY <2>1, <2>2, <2>4, OtherTabs
    <3>2. Distinct(list[t])  BY DEF Slices, GoodList
    <3> QED BY <3>1, <3>2 DEF Distinct
  <2> QED BY <2>3, <2>4
<1>2. TypeOK /\ IInv /\ OneTab /\ [Next]_vars => OneTab'  BY OneTabSteps DEF IInv
<1>3. Spec => []OneTab
  BY <1>2, OneTabInit, TypeCorrect, Inductive, PTL DEF Spec
<1>4. IInv => Slices  BY DEF IInv
<1> QED BY <1>1, <1>3, <1>4, TypeCorrect, Inductive, PTL DEF Spec, OnlyShownChanges
=============================================================================
