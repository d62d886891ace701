SPECIFICATION Spec
CONSTANTS
  NoName = NoName
  NoUrl = NoUrl
  LF = LF
  CR = CR
  Second = Second
  NoLimit = NoLimit
  Panic = Panic
  NotText = NotText
  Endless = Endless
  Letters = {letter}
  MaxLength = 6
  Limits = {0, 1, 2, 3, NoLimit}
  Up <- UpName
  SystemPaths <- System
  WorkspaceName <- Workspace
  StagingName <- Staging
  ScratchName <- Scratch
  TempDirs <- Temps
  Tmp <- TmpDir
  Fetchers = {f1, f2}
  WebPages <- Web
  Domains <- Lists
  Mounts <- Allowed
  OverlayNames <- Overlay
  Denylist <- Deny
  Allowlist <- Allow
  Commands <- Command
  HostPaths <- Paths
  FileNames <- Keys
  CommandLinks <- Links
  InstallEnabled = TRUE
  PackageRequests <- Asks
  Host <- Host0
  Platform = "linux"
  Dir = Dir
  Idle = Idle
  MaxCheckpoints = 3
  MaxCalls = 4
SYMMETRY Symmetry
INVARIANTS BundlesWhole PagesJoin CommandsAtHome
PROPERTY HostInBounds
CHECK_DEADLOCK FALSE
