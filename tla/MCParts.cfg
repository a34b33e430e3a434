SPECIFICATION Spec
CONSTANTS
  None = None
  Blank = Blank
  SpaceFrames = 5
  HeapPages = 2
  UserDirs = {u1}
  Kernel = Kernel
  StackPages = {4}
  LastPage = 4
  MaxFrames = 11
  ProcessMax = 2
  MaxStarts = 2
  Modulus = 3
  LongNames = {l1, l2}
  ShortNames = {s1}
  Cut <- MCCut
  Subs = {d1}
  Root = Root
  MaxSlots = 4
  MaxList = 2
  Ids = {d1, g1, g2}
  Layouts = {"no drive", "whole", "first", "second", "nowhere", "crowded"}
  Images = {"none", "too large", "blank", "volume"}
  MaxDevices = 4
  Mixed = Mixed
  MaxSaves = 3
  MaxBoots = 3
  RingSize = 2
  PointerWidth = 2
  MaxKeys = 4
  MaxChanges = 1
  MaxPackets = 2
  MaxLost = 1
  MaxRequests = 2
  MaxInterrupts = 6
  MaxSources = 2
  Ticks = 8
  MaxLength = 2
  MaxSounds = 3
  MaxClicks = 2
  Builtins = {clock}
  Apps = {paint, files}
  Fixed = {files}
  Launchers = {files}
  MaxWindows = 3
  Screen = 3
  MinWidth = 2
  MaxPresses = 3
  IconLaunchers = 2
  MaxIcons = 4
  Cells = 3
  CellWidth = 2
  IconWidth = 1
  ScreenWidth = 3
  CursorWidth = 2
  Colors = {"light", "dark"}
  Welcome = w
  Plain = t
  Numbered = {t1}
  Inner = i
  Folder = d
  Home = Home
  Lengthy = {i}
  MaxText = 1
  MaxEvents = 3
  MaxTexts = 2
  Typed = Typed
  Digits = {0, 2, 5}
  Largest = 99
  MaxResult = 50
  MaxPressed = 6
  Size = 2
  LineMax = 3
  Buffer = 6
  MaxLines = 4
  Cols = 2
  Heights = {1, 2}
  ScrollStep = 1
  MaxCommands = 4
CHECK_DEADLOCK FALSE
INVARIANTS
  TypeOK
  MemorySound
  ProcessesSound
  
  DriveKept
  DevicesSound
  DesktopSound
  ApplicationsSound
  ShellSound
