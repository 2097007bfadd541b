CONSTANTS
  Null = Null
  Slack = 1
  Items = {m1, m2, m3}
  Names <- Keys
  Value <- KeyValue
  LateRegister = FALSE
  MaxCalls = 2
  Elems = {1, 2}
  StackMax <- StackSizes
  Chars = {"a", " "}
  Space = " "
  Lent = {1, 3}
  TextMax = 4
  Unsafe = {}
  LongBits = 6
  IntBits = 5
  Alphabets <- KindAlphabets
  Typed <- KindTyped
  Bases = {2, 10, 16, 36}
  LineChars <- ReaderChars
  FedMax = 5
  Mods = {m1, m2, m3}
  Chain = modules
  Files = {"test", "single", "failreg", "empty", "pinned"}
  Def <- TestDef
  Requests <- TestRequests
  Resolve <- TestResolve
  Wanted <- TestWanted
  Configs <- TestConfigs
  CloseFails = TRUE
  MaxDepth = 2
  MaxRefs = 2
  None = None
  Parts = {"text"}
SPECIFICATION MCSpec
SYMMETRY Symmetry
INVARIANTS OverflowRefused
