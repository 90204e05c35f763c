----------------------------- MODULE Dashboards -----------------------------
(***************************************************************************)
(* The dashboards of one browser: the list each tab keeps in its store and *)
(* in localStorage, which all tabs share; the layout file behind          *)
(* /_layouts; and the edit session of the dashboard page, with its         *)
(* snapshot, its drafts and the read that fills the page when it mounts.   *)
(* The list is a set: its order decides only which dashboard a deletion    *)
(* makes active.  Timestamps and sizes are left out.                       *)
(***************************************************************************)
EXTENDS Naturals, Sequences, FiniteSets

CONSTANTS Tabs,
          PageTabs,        \* the tabs that ever open the dashboard page
          Names,           \* dashboard names
          TemplateName,    \* "Agent Workbench"
          LegacyName,      \* "SEA Demo"
          FileName,        \* "default", the file the page reads
          Typed,           \* names a user gives
          TemplateId,      \* "template-sea-demo"
          NewDashboards,   \* ids createId may still mint for dashboards
          NewPlacements,   \* ids createId may still mint for placements
          Components,
          Removed,         \* SEA_DEMO_REMOVED_COMPONENTS
          Hidden,          \* components the palette sweep hides
          Configurable,    \* components whose manifest has a config schema
          TemplateLayout,  \* the template's placements
          Configs,
          Invalid,         \* configs their schema rejects
          EmptyConfig,
          NoDraft,
          None,            \* null
          InitialStored,   \* lists earlier sessions may have left in localStorage
          MaxReads,        \* reads of the mount effect that may be out in a tab
          MaxMinted,       \* ids minted in a behaviour
          MaxSaves         \* different saves of that file that are told apart

TemplatePlacements == {TemplateLayout[k].i : k \in DOMAIN TemplateLayout}
Placements == NewPlacements \cup TemplatePlacements
Ids == NewDashboards \cup {TemplateId}
Items == [i : Placements, component : Components, config : Configs]
Dashboard == [id : Ids, name : Names, layout : Seq(Items)]
PlainNames == Names \ {TemplateName, LegacyName, FileName}
\* activeDashboard is null.
NoDashboard == [id |-> None, name |-> None, layout |-> <<>>]
Template == [id |-> TemplateId, name |-> TemplateName, layout |-> TemplateLayout]

ASSUME DashboardValues ==
  /\ PageTabs \subseteq Tabs
  /\ {TemplateName, LegacyName, FileName} \cup Typed \subseteq Names
  /\ TemplateName # LegacyName
  /\ TemplateId \notin NewDashboards /\ IsFiniteSet(NewPlacements)
  /\ Removed \subseteq Components /\ Hidden \subseteq Components
  /\ TemplateLayout \in Seq(Items)
  /\ EmptyConfig \in Configs /\ Invalid \subseteq Configs
  /\ NoDraft \notin Configs
  /\ None \notin Ids /\ None \notin Names /\ None \notin Seq(Items)
  /\ InitialStored \subseteq SUBSET Dashboard
  /\ \A l \in InitialStored :
       /\ \A d, e \in l : d.id = e.id => d = e
       /\ \A d \in l : d.id \notin NewDashboards
  /\ MaxReads \in Nat /\ MaxMinted \in Nat /\ MaxSaves \in Nat

VARIABLES stored,       \* localStorage: the dashboards list
          storedActive, \* localStorage: the last active id
          storageUp,    \* localStorage takes writes, or is full or denied throughout
          sent,         \* the saves of the one layout file that is ever read
          minted,       \* ids createId has handed out
          page,         \* page[t]: "unloaded", "elsewhere" or "dashboard"
          list,         \* list[t], activeId[t], active[t]: the dashboard slice
          activeId,
          active,
          editMode,     \* editMode[t], drafts[t]: the edit-mode and config slices
          drafts,
          reading,      \* reading[t]: mount reads that are out
          snapshot,     \* snapshot[t]: snapshotRef of the mounted page
          snapshotOf,   \* whose layout the snapshot is
          holders       \* the tabs whose list localStorage holds

storage == <<stored, storedActive, holders>>
slice == <<list, activeId, active>>
view == <<page, reading, snapshot, snapshotOf>>
vars == <<storage, storageUp, sent, minted, slice, editMode, drafts, view>>

-----------------------------------------------------------------------------
(* The template and its repair                                             *)

ComponentsOf(layout) == {layout[k].component : k \in DOMAIN layout}

\* Array.filter: the entries of a layout that are in kept, in their order.  It is
\* written as a recursive function, which the proofs can unfold.
filter(layout, kept) ==
  LET F[k \in 0..Len(layout)] ==
        IF k = 0 THEN <<>>
        ELSE IF layout[k] \in kept THEN Append(F[k - 1], layout[k]) ELSE F[k - 1]
  IN  F[Len(layout)]

isSeaDemoDashboard(d) == d.name \in {TemplateName, LegacyName} \/ d.id = TemplateId

\* A stored workbench loses the retired widgets and regains the required ones.
Retained(layout) == filter(layout, {item \in Items : item.component \notin Removed})
Missing(layout) ==
  filter(TemplateLayout, {item \in Items : item.component \notin ComponentsOf(layout)})
RepairedLayout(d) ==
  IF d.name = LegacyName THEN TemplateLayout
  ELSE Retained(d.layout) \o Missing(Retained(d.layout))

repairSeaDemoDashboard(d) ==
  IF isSeaDemoDashboard(d)
  THEN [id |-> d.id, name |-> TemplateName, layout |-> RepairedLayout(d)]
  ELSE d

Visible(layout) == filter(layout, {item \in Items : item.component \notin Hidden})
pruneHiddenItems(d) == [d EXCEPT !.layout = Visible(d.layout)]

-----------------------------------------------------------------------------
(* The store and localStorage                                              *)

deriveActive(dashboards, id) ==
  IF \E d \in dashboards : d.id = id THEN CHOOSE d \in dashboards : d.id = id ELSE NoDashboard

\* setItem throws once the storage is full, and the error is swallowed.
persistList(t, dashboards) ==
  IF storageUp THEN stored' = dashboards /\ holders' = {t}
               ELSE stored' = stored /\ holders' = holders \ {t}

persistActiveId(id) == storedActive' = IF storageUp THEN id ELSE storedActive

\* set(): the slice after an action.
SetSlice(t, dashboards, id, d) ==
  /\ list' = [list EXCEPT ![t] = dashboards]
  /\ activeId' = [activeId EXCEPT ![t] = id]
  /\ active' = [active EXCEPT ![t] = d]

Replace(dashboards, d) == {IF e.id = d.id THEN d ELSE e : e \in dashboards}

\* Mutant: the list keeps its old entry.
SetLayoutActiveOnly(t, layout) ==
  /\ active' = [active EXCEPT ![t] = [@ EXCEPT !.layout = layout]]
  /\ UNCHANGED <<list, activeId>>

\* The active dashboard gets a new layout, in the list as well.
SetLayout(t, layout) ==
  LET d == [active[t] EXCEPT !.layout = layout]
  IN /\ active' = [active EXCEPT ![t] = d]
     /\ list' = [list EXCEPT ![t] = Replace(@, d)]
     /\ UNCHANGED activeId

\* Mutant: the list is not stored.
StoreLayoutForgets(t, layout) == SetLayout(t, layout) /\ UNCHANGED storage

\* A layout operation of the slice that stores the list.
StoreLayout(t, layout) ==
  /\ SetLayout(t, layout)
  /\ persistList(t, Replace(list[t], [active[t] EXCEPT !.layout = layout]))
  /\ UNCHANGED storedActive

\* A layout operation that leaves the storage as it is.
KeepLayout(t, layout) ==
  /\ SetLayout(t, layout)
  /\ holders' = holders \ {t}
  /\ UNCHANGED <<stored, storedActive>>

\* createId
Mint(x) ==
  /\ x \notin minted /\ Cardinality(minted) < MaxMinted
  /\ minted' = minted \cup {x}

\* Mutant: a switch leaves the edit mode on.
StayOpenOnSwitch(t, id) == UNCHANGED editMode

\* The page's effect: another dashboard on screen ends the edit mode.
CloseOnSwitch(t, id) ==
  editMode' = [editMode EXCEPT ![t] =
                 IF page[t] = "dashboard" /\ active[t] # NoDashboard /\ id # active[t].id
                 THEN FALSE ELSE @]

\* Navigation to the dashboard page mounts it, and the mount reads the file.
Show(t) ==
  IF page[t] = "dashboard" THEN UNCHANGED view
  ELSE /\ t \in PageTabs /\ reading[t] < MaxReads
       /\ page' = [page EXCEPT ![t] = "dashboard"]
       /\ reading' = [reading EXCEPT ![t] = @ + 1]
       /\ UNCHANGED <<snapshot, snapshotOf>>

NoSnapshot(t) ==
  /\ snapshot' = [snapshot EXCEPT ![t] = None]
  /\ snapshotOf' = [snapshotOf EXCEPT ![t] = None]

NoDrafts == [p \in Placements |-> NoDraft]

Init ==
  /\ stored \in InitialStored
  /\ storedActive \in IF stored = {} THEN {None} ELSE {d.id : d \in stored}
  /\ storageUp \in BOOLEAN
  /\ sent = {}
  /\ minted = {}
  /\ page = [t \in Tabs |-> "unloaded"]
  /\ list = [t \in Tabs |-> {}]
  /\ activeId = [t \in Tabs |-> None]
  /\ active = [t \in Tabs |-> NoDashboard]
  /\ editMode = [t \in Tabs |-> FALSE]
  /\ drafts = [t \in Tabs |-> NoDrafts]
  /\ reading = [t \in Tabs |-> 0]
  /\ snapshot = [t \in Tabs |-> None]
  /\ snapshotOf = [t \in Tabs |-> None]
  /\ holders = {}

-----------------------------------------------------------------------------
(* Loading and the pages                                                   *)

\* The module load: the store starts from localStorage, which gets the repaired
\* list back when the repair changed an entry.
Load(t) ==
  LET repaired == {repairSeaDemoDashboard(d) : d \in stored}
  IN /\ SetSlice(t, repaired, storedActive, deriveActive(repaired, storedActive))
     /\ IF repaired # stored THEN persistList(t, repaired)
        ELSE stored' = stored /\ holders' = holders \cup {t}
     /\ page' = [page EXCEPT ![t] = "elsewhere"]
     /\ editMode' = [editMode EXCEPT ![t] = FALSE]
     /\ drafts' = [drafts EXCEPT ![t] = NoDrafts]
     /\ reading' = [reading EXCEPT ![t] = 0]
     /\ NoSnapshot(t)
     /\ UNCHANGED <<storedActive, storageUp, sent, minted>>

Mount(t) ==
  /\ page[t] = "elsewhere"
  /\ Show(t)
  /\ UNCHANGED <<storage, storageUp, sent, minted, slice, editMode, drafts>>

\* Another page: the view and its snapshot go, the store stays.
Leave(t) ==
  /\ page[t] = "dashboard"
  /\ page' = [page EXCEPT ![t] = "elsewhere"]
  /\ NoSnapshot(t)
  /\ UNCHANGED <<storage, storageUp, sent, minted, slice, editMode, drafts, reading>>

\* setActiveDashboard: the dashboard enters the list or replaces its namesake by id.
setActiveDashboard(t, d) ==
  LET dashboards == IF \E e \in list[t] : e.id = d.id THEN Replace(list[t], d)
                                                     ELSE list[t] \cup {d}
  IN SetSlice(t, dashboards, d.id, d) /\ persistList(t, dashboards) /\ persistActiveId(d.id)


\* A mount read ends with the file's layout, or finds no file, or fails; the page
\* takes what it found, or else the template, unless a dashboard is on screen by then.
HydrateAnswer(t) ==
  /\ reading[t] > 0
  /\ reading' = [reading EXCEPT ![t] = @ - 1]
  /\ IF active[t] # NoDashboard THEN UNCHANGED <<storage, slice>>
     ELSE \E answer \in sent \cup {NoDashboard} :
            setActiveDashboard(t, pruneHiddenItems(IF answer = NoDashboard THEN Template
                                                   ELSE repairSeaDemoDashboard(answer)))
  /\ UNCHANGED <<storageUp, sent, minted, editMode, drafts, page, snapshot, snapshotOf>>

-----------------------------------------------------------------------------
(* The sidebar                                                             *)

createDashboard(t, name) ==
  \E id \in NewDashboards :
    LET d == [id |-> id, name |-> name, layout |-> <<>>]
    IN /\ page[t] # "unloaded"
       /\ Mint(id)
       /\ SetSlice(t, list[t] \cup {d}, id, d)
       /\ persistList(t, list[t] \cup {d}) /\ persistActiveId(id)
       /\ CloseOnSwitch(t, id)
       /\ Show(t)
       /\ UNCHANGED <<storageUp, sent, drafts>>

Renamed(dashboards, id, name) ==
  {IF d.id = id THEN [d EXCEPT !.name = name] ELSE d : d \in dashboards}

renameDashboard(t, id, name) ==
  LET dashboards == Renamed(list[t], id, name)
  IN /\ page[t] # "unloaded"
     /\ \E d \in list[t] : d.id = id
     /\ SetSlice(t, dashboards, activeId[t], deriveActive(dashboards, activeId[t]))
     /\ persistList(t, dashboards)
     /\ UNCHANGED <<storedActive, storageUp, sent, minted, editMode, drafts, view>>

\* Mutant: the active id in localStorage is left behind.
DeleteKeepsActiveId(t, id) ==
  LET dashboards == {d \in list[t] : d.id # id}
      next == IF activeId[t] # id THEN {activeId[t]}
              ELSE IF dashboards = {} THEN {None} ELSE {d.id : d \in dashboards}
  IN /\ page[t] # "unloaded"
     /\ \E d \in list[t] : d.id = id
     /\ persistList(t, dashboards)
     /\ \E newId \in next :
          /\ SetSlice(t, dashboards, newId, deriveActive(dashboards, newId))
          /\ CloseOnSwitch(t, newId)
     /\ UNCHANGED <<storedActive, storageUp, sent, minted, drafts, view>>

\* The first dashboard left, whichever it is, becomes active.
deleteDashboard(t, id) ==
  LET dashboards == {d \in list[t] : d.id # id}
      next == IF activeId[t] # id THEN {activeId[t]}
              ELSE IF dashboards = {} THEN {None} ELSE {d.id : d \in dashboards}
  IN /\ page[t] # "unloaded"
     /\ \E d \in list[t] : d.id = id
     /\ persistList(t, dashboards)
     /\ \E newId \in next :
          /\ SetSlice(t, dashboards, newId, deriveActive(dashboards, newId))
          /\ persistActiveId(newId)
          /\ CloseOnSwitch(t, newId)
     /\ UNCHANGED <<storageUp, sent, minted, drafts, view>>

\* The copy keeps the placements' ids; its name, "... (copy)", is a plain one.
duplicateDashboard(t, id) ==
  \E source \in list[t], newId \in NewDashboards, name \in PlainNames :
    LET copy == [id |-> newId, name |-> name, layout |-> source.layout]
    IN /\ page[t] # "unloaded"
       /\ source.id = id
       /\ Mint(newId)
       /\ SetSlice(t, list[t] \cup {copy}, newId, copy)
       /\ persistList(t, list[t] \cup {copy}) /\ persistActiveId(newId)
       /\ CloseOnSwitch(t, newId)
       /\ UNCHANGED <<storageUp, sent, drafts, view>>

setActiveDashboardById(t, id) ==
  /\ page[t] # "unloaded"
  /\ \E d \in list[t] : d.id = id
  /\ persistActiveId(id)
  /\ SetSlice(t, list[t], id, deriveActive(list[t], id))
  /\ CloseOnSwitch(t, id)
  /\ Show(t)
  /\ UNCHANGED <<stored, holders, storageUp, sent, minted, drafts>>

-----------------------------------------------------------------------------
(* The edit session of the page                                            *)

Shown(t) == page[t] = "dashboard" /\ active[t] # NoDashboard
Layout(t) == active[t].layout

IndexOf(layout, p) == CHOOSE k \in DOMAIN layout : layout[k].i = p
Has(layout, p) == \E k \in DOMAIN layout : layout[k].i = p

\* splice(at, 0, item) and splice(at, 1), for an index counted from 0.
Insert(layout, at, item) == SubSeq(layout, 1, at) \o <<item>> \o SubSeq(layout, at + 1, Len(layout))
Without(layout, at) == SubSeq(layout, 1, at) \o SubSeq(layout, at + 2, Len(layout))
Clamp(at, layout) == IF at > Len(layout) THEN Len(layout) ELSE at

\* Mutant: the target is not adjusted for the widget taken out before it.
MovedPast(layout, from, to) ==
  LET rest == Without(layout, from) IN Insert(rest, Clamp(to, rest), layout[from + 1])

\* A widget dropped on position "to", counted from 0, lands before what was there.
Moved(layout, from, to) ==
  LET rest == Without(layout, from)
      adjusted == IF from < to THEN to - 1 ELSE to
  IN Insert(rest, Clamp(adjusted, rest), layout[from + 1])

handleEdit(t) ==
  /\ Shown(t) /\ ~editMode[t]
  /\ snapshot' = [snapshot EXCEPT ![t] = Layout(t)]
  /\ snapshotOf' = [snapshotOf EXCEPT ![t] = active[t].id]
  /\ editMode' = [editMode EXCEPT ![t] = TRUE]
  /\ UNCHANGED <<storage, storageUp, sent, minted, slice, drafts, page, reading>>

\* Escape closes the edit mode and nothing else.
Escape(t) ==
  /\ page[t] = "dashboard" /\ editMode[t]
  /\ editMode' = [editMode EXCEPT ![t] = FALSE]
  /\ UNCHANGED <<storage, storageUp, sent, minted, slice, drafts, view>>

\* The palette: a click appends a widget, a drop inserts it at a position.
addComponentToLayout(t, component) ==
  \E p \in NewPlacements :
    LET item == [i |-> p, component |-> component, config |-> EmptyConfig]
    IN /\ Shown(t) /\ editMode[t]
       /\ Mint(p)
       /\ StoreLayout(t, Append(Layout(t), item))
       /\ UNCHANGED <<storageUp, sent, editMode, drafts, view>>

insertComponentAt(t, component, at) ==
  \E p \in NewPlacements :
    LET item == [i |-> p, component |-> component, config |-> EmptyConfig]
    IN /\ Shown(t) /\ editMode[t]
       /\ Mint(p)
       /\ StoreLayout(t, Insert(Layout(t), Clamp(at, Layout(t)), item))
       /\ UNCHANGED <<storageUp, sent, editMode, drafts, view>>

\* A drop of a widget that would leave it where it is changes nothing.
moveLayoutItem(t, p, to) ==
  /\ Shown(t) /\ editMode[t]
  /\ Has(Layout(t), p)
  /\ Moved(Layout(t), IndexOf(Layout(t), p) - 1, to) # Layout(t)
  /\ StoreLayout(t, Moved(Layout(t), IndexOf(Layout(t), p) - 1, to))
  /\ UNCHANGED <<storageUp, sent, minted, editMode, drafts, view>>

\* A widget's own menu works outside the edit mode too.
removeComponentFromLayout(t, p) ==
  /\ Shown(t)
  /\ Has(Layout(t), p)
  /\ StoreLayout(t, filter(Layout(t), {item \in Items : item.i # p}))
  /\ UNCHANGED <<storageUp, sent, minted, editMode, drafts, view>>

duplicateLayoutItem(t, p) ==
  \E q \in NewPlacements :
    /\ Shown(t)
    /\ Has(Layout(t), p)
    /\ Mint(q)
    /\ StoreLayout(t, Append(Layout(t), [Layout(t)[IndexOf(Layout(t), p)] EXCEPT !.i = q]))
    /\ UNCHANGED <<storageUp, sent, editMode, drafts, view>>

\* The configuration panel of a shown widget: a change keeps a draft, Cancel and
\* Save changes end it.
setDraftConfig(t, p, config) ==
  /\ Shown(t) /\ Has(Layout(t), p)
  /\ Layout(t)[IndexOf(Layout(t), p)].component \in Configurable
  /\ drafts' = [drafts EXCEPT ![t] = [@ EXCEPT ![p] = config]]
  /\ UNCHANGED <<storage, storageUp, sent, minted, slice, editMode, view>>

discardDraft(t, p) ==
  /\ Shown(t) /\ Has(Layout(t), p)
  /\ drafts' = [drafts EXCEPT ![t] = [@ EXCEPT ![p] = NoDraft]]
  /\ UNCHANGED <<storage, storageUp, sent, minted, slice, editMode, view>>

\* updateComponentConfig for every draft of the map.
WithDrafts(layout, draft) ==
  [k \in DOMAIN layout |->
     IF draft[layout[k].i] = NoDraft THEN layout[k]
     ELSE [layout[k] EXCEPT !.config = draft[layout[k].i]]]

\* Mutant: a missing draft is committed too.
CommitNoDraft(t, p) ==
  /\ Shown(t) /\ Has(Layout(t), p)
  /\ KeepLayout(t, [k \in DOMAIN Layout(t) |->
                      IF Layout(t)[k].i = p THEN [Layout(t)[k] EXCEPT !.config = drafts[t][p]]
                                            ELSE Layout(t)[k]])
  /\ drafts' = [drafts EXCEPT ![t] = [@ EXCEPT ![p] = NoDraft]]
  /\ UNCHANGED <<storageUp, sent, minted, editMode, view>>

\* One draft enters the layout; the list is not stored.
commitDraft(t, p) ==
  /\ Shown(t) /\ Has(Layout(t), p)
  /\ drafts[t][p] \notin Invalid \cup {NoDraft}
  /\ KeepLayout(t, WithDrafts(Layout(t), [NoDrafts EXCEPT ![p] = drafts[t][p]]))
  /\ drafts' = [drafts EXCEPT ![t] = [@ EXCEPT ![p] = NoDraft]]
  /\ UNCHANGED <<storageUp, sent, minted, editMode, view>>

\* The service sends a valid dashboard to the file of its name and does not wait.
\* Saves arrive late, in any order or not at all, so a read finds any of them.
Send(d) ==
  sent' = IF d.name = FileName /\ Cardinality(sent) < MaxSaves THEN sent \cup {d} ELSE sent

\* Save, and Close of the palette, which asks nothing of the drafts: the drafts
\* enter the layout, which is sent to its file.
handleSave(t) ==
  LET layout == WithDrafts(Layout(t), drafts[t])
      saved == [active[t] EXCEPT !.layout = layout]
  IN /\ Shown(t) /\ editMode[t]
     /\ IF \E p \in Placements : drafts[t][p] # NoDraft
        THEN KeepLayout(t, layout) ELSE UNCHANGED <<storage, slice>>
     /\ Send(saved)
     /\ drafts' = [drafts EXCEPT ![t] = NoDrafts]
     /\ editMode' = [editMode EXCEPT ![t] = FALSE]
     /\ NoSnapshot(t)
     /\ UNCHANGED <<storageUp, minted, page, reading>>

\* Discard: the snapshot, if the page still has one, comes back in memory.
handleDiscard(t) ==
  /\ Shown(t) /\ editMode[t]
  /\ IF snapshot[t] = None THEN UNCHANGED <<storage, slice>> ELSE KeepLayout(t, snapshot[t])
  /\ drafts' = [drafts EXCEPT ![t] = NoDrafts]
  /\ editMode' = [editMode EXCEPT ![t] = FALSE]
  /\ NoSnapshot(t)
  /\ UNCHANGED <<storageUp, sent, minted, page, reading>>

-----------------------------------------------------------------------------
SidebarStep(t) ==
  \/ \E name \in PlainNames : createDashboard(t, name)
  \/ \E id \in Ids, name \in Typed : renameDashboard(t, id, name)
  \/ \E id \in Ids : \/ deleteDashboard(t, id)
                     \/ duplicateDashboard(t, id)
                     \/ setActiveDashboardById(t, id)

SessionStep(t) ==
  \/ handleEdit(t) \/ Escape(t) \/ handleSave(t) \/ handleDiscard(t)
  \/ \E c \in Components \ Hidden :
       \/ addComponentToLayout(t, c)
       \/ \E at \in 0..Cardinality(Placements) : insertComponentAt(t, c, at)
  \/ \E p \in Placements :
       \/ \E to \in 0..Cardinality(Placements) : moveLayoutItem(t, p, to)
       \/ removeComponentFromLayout(t, p)
       \/ duplicateLayoutItem(t, p)
       \/ discardDraft(t, p)
       \/ commitDraft(t, p)
       \/ \E config \in Configs : setDraftConfig(t, p, config)

Next ==
  \E t \in Tabs :
    \/ Load(t) \/ Mount(t) \/ Leave(t) \/ HydrateAnswer(t)
    \/ SidebarStep(t)
    \/ SessionStep(t)

Spec == Init /\ [][Next]_vars

\* A read of a layout file is bounded by fetchWithTimeout: it is answered or fails.
FairSpec == Spec /\ \A t \in Tabs : WF_vars(HydrateAnswer(t))

-----------------------------------------------------------------------------
(* Properties                                                              *)

TypeOK ==
  /\ stored \subseteq Dashboard
  /\ storedActive \in Ids \cup {None}
  /\ storageUp \in BOOLEAN
  /\ sent \subseteq {d \in Dashboard : d.name = FileName}
  /\ minted \subseteq NewDashboards \cup NewPlacements
  /\ page \in [Tabs -> {"unloaded", "elsewhere", "dashboard"}]
  /\ list \in [Tabs -> SUBSET Dashboard]
  /\ activeId \in [Tabs -> Ids \cup {None}]
  /\ active \in [Tabs -> Dashboard \cup {NoDashboard}]
  /\ editMode \in [Tabs -> BOOLEAN]
  /\ drafts \in [Tabs -> [Placements -> Configs \cup {NoDraft}]]
  /\ reading \in [Tabs -> Nat]
  /\ snapshot \in [Tabs -> Seq(Items) \cup {None}]
  /\ snapshotOf \in [Tabs -> Ids \cup {None}]
  /\ holders \subseteq Tabs

\* The dashboard on screen is the list's entry of the active id, and no two
\* entries share an id: the slice keeps the two in step by hand in every operation.
ActiveIsListed ==
  \A t \in Tabs :
    /\ active[t] = deriveActive(list[t], activeId[t])
    /\ \A d, e \in list[t] : d.id = e.id => d = e

\* Discard can only bring back a layout of the dashboard on screen: a switch
\* between Edit and Discard ends the session.
SnapshotOfShown ==
  \A t \in Tabs : Shown(t) /\ editMode[t] /\ snapshot[t] # None => snapshotOf[t] = active[t].id

\* What a reload reads is what the tab that stored last, or loaded since, shows,
\* but for the drafts and the discarded changes that no operation stores.
StoredIsShown == \A t \in holders : stored = list[t]

Alone(t) == \A u \in Tabs \ {t} : page[u] = "unloaded"

\* No step of a browser with one tab whose storage works changes the layout of a
\* dashboard that is not on screen; in particular a mount read that ends never
\* puts the template over a dashboard of the list.
OnlyShownChanges ==
  [][\A t \in Tabs :
       storageUp /\ Alone(t) /\ ~Load(t) =>
         \A d \in list[t], e \in list'[t] :
           d.id = e.id /\ d.layout # e.layout => d.id = activeId[t]]_vars

\* A widget dropped on another lands right before it and leaves the others in order.
MoveLandsBefore ==
  [][\A t \in Tabs, p \in Placements : \A to \in 0..Cardinality(Placements) :
       moveLayoutItem(t, p, to) =>
         LET before == Layout(t)
             after == active'[t].layout
             Others(layout) == filter(layout, {item \in Items : item.i # p})
         IN /\ Others(after) = Others(before)
            /\ IF to >= Len(before) THEN after[Len(after)].i = p
               ELSE \E k \in 1..(Len(after) - 1) :
                      after[k].i = p /\ after[k + 1] = before[to + 1]]_vars


\* A reload brings back the configurations the tab showed.
ReloadKeepsConfigs ==
  [][\A t \in Tabs :
       storageUp /\ Alone(t) /\ page[t] # "unloaded" =>
         \A d \in list[t], e \in list'[t] : d.id = e.id /\ Load(t) =>
           \A j \in DOMAIN d.layout, k \in DOMAIN e.layout :
             d.layout[j].i = e.layout[k].i => d.layout[j].config = e.layout[k].config]_vars

\* The three copies of the list that the slice keeps in step by hand: the list,
\* the dashboard on screen and the storage.
SliceInStep == ActiveIsListed /\ StoredIsShown
=============================================================================
