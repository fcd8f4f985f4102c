SPECIFICATION Spec
CONSTANTS
  a = a
  b = b
  s = s
  big = big
  chat = chat
  draft = draft
  embed = embed
  judge = judge
  hub = hub
  leased = leased
  i1 = i1
  e1 = e1
  c1 = c1
  f = f
  g = g
  j1 = j1
  j2 = j2
  Calls = {call1, call2}
  MaxRevision = 1
  MaxFaults = 1
  None = None
  Models = {a, b, s, big}
  Pinned = {s}
  Size <- SomeSizes
  Layers <- SomeLayers
  Budget = 4
  Slots = 1
  Offload = TRUE
  Users = {user1, user2}
  Mishaps = 1
  Nobody = Nobody
  Laya = Laya
  LayaHome = "cloud"
  Judge = judge
  Entries = {chat, draft, embed, judge, hub, leased}
  ProviderOf <- SomeProviders
  Abilities <- SomeAbilities
  Window <- SomeWindows
  Margin = 1
  Unsuited = {chat}
  TooBig = {judge}
  Toolless = {hub}
  Dear = {hub}
  Movable = {hub}
  Fleeting = {draft}
  Requests <- SomeRequests
  Streak = 2
  RoleMin = 2
  RolePercent = 30
  Proven = 1
  Enough = 2
  MaxHistory = 2
  MaxReloads = 1
  Tasks = {i1, e1, c1}
  LaneOf <- LaneOfEach
  Parallel = {i1}
  Limits <- SomeLimits
  Width <- SomeWidths
  Unproven <- SomeUnproven
  Remote = {hub}
  Needed = 2
  Callers = {caller1, caller2, caller3}
  Processes = 2
  NoiseLimit = 1
  Upsets = 1
  Files = {f, g}
  Versions = {1, 2}
  Refs <- SomeRefs
  Jobs = {j1, j2}
  Losses = 1
CHECK_DEADLOCK FALSE
INVARIANTS
  TypeOK
  MemoryIsHeld
  BoundaryIsKept
  ProbesGiveWay
  ChannelIsClean
  StateIsOne
PROPERTIES
  BookIsKept
