\* Two shells, two version IDs besides the anchor, and three builds of two programs;
\* directories of two files instead of five; four commands.
CONSTANTS
  Process = {p1, p2}
  Version = {anchor, v1, v2}
  Program = {"old", "new"}
  Build = {b0, b1, b2}
  ProgramOf <- TwoPrograms
  Anchor = anchor
  AnchorBuild = b0
  NoEntry = NoEntry
  NoDirectory = NoDirectory
  Files = 2
  MaxCommands = 4

SPECIFICATION RegistrySpec
SYMMETRY Symmetric

INVARIANT FreezeOwnsItsDirectory
INVARIANT ChampionIntact
INVARIANT SelectionSucceeds
PROPERTY AcceptedStays

CHECK_DEADLOCK FALSE
