SPECIFICATION MCSpec
CONSTANTS
  IoE = {f1}
  TimeE = {t1, t2}
  DeferE = {d1}
  None = None
  MaxTime = 1
  MaxOps = 3
  Basic = {a1}
  Data = {a2, a3}
  Once = {a4}
  NoThread = NoThread
  Worker = Worker
  Main = Main
  MaxStarts = 1
  MaxSpurious = 1
  c1 = c1
  c2 = c2
  dr1 = dr1
  dr2 = dr2
  s1 = s1
  Applications <- MCApplications
  Cmds = {c1, c2}
  StreamCmds = {c2}
  Drains = {dr1, dr2}
  Streams = {s1}
  NoOperation = NoOperation
  p1 = p1
  p2 = p2
  x1 = x1
  x2 = x2
  x3 = x3
  Procs = {p1, p2}
  Contexts = {x1, x2, x3}
  ProcessOf <- MCProcessOf
  Blocking = {x1, x3}
  Nobody = Nobody
  NoFile = NoFile
  Files = {l1, l2, l3, l4, l5}
  MaxCrashes = 1
  LockFails = TRUE
PROPERTIES
    MainLoopCorrect
    ThreadedLoopCorrect
    OperationsCorrect
    AutospawnCorrect
CHECK_DEADLOCK FALSE
