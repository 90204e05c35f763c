\* One tab, one dashboard or widget to make, the widget the template requires.
CONSTANTS
  Tabs = {a}
  PageTabs = {a}
  w1 = w1
  events = events  retired = retired
  c0 = c0  workbench = workbench
  Names = {workbench, demo, default, plain}
  TemplateName = workbench
  LegacyName = demo
  FileName = default
  Typed = {default}
  TemplateId = tid
  NewDashboards = {d1}
  NewPlacements = {p1}
  Components = {events, retired, off}
  Removed = {retired}
  Hidden = {off}
  Configurable = {events}
  TemplateLayout <- OneWidget
  Configs = {c0}
  Invalid = {}
  EmptyConfig = c0
  NoDraft = NoDraft
  None = None
  InitialStored <- EmptyOrOld
  MaxReads = 1
  MaxSaves = 1
  MaxMinted = 1
SPECIFICATION FairSpec
INVARIANTS
  TypeOK
  SliceInStep
  SnapshotOfShown
PROPERTIES
  OnlyShownChanges
  MoveLandsBefore
  
