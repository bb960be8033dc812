CONSTANTS
  r1 = r1
  r2 = r2
  r3 = r3
  r4 = r4
  a = a
  b = b
  c = c
  Runs = {r1, r2, r3, r4}
  Program <- FourRuns
  Limit = 2
  v1 = v1
  v2 = v2
  Visits = {v1, v2}
  NoVisit = NoVisit
  MaxObjects = 2
  MaxIds = 2
  p1 = p1
  p2 = p2
  p3 = p3
  Processes = {p1, p2, p3}
  NoProcess = NoProcess
  MinutesPerHour = 2
  HoursPerDay = 2
  DaysPerWeek = 3
  MonthStarts <- MCMonthStarts
  MonthsPerYear = 2
  Expressions <- MCExpressions
  Afters <- MCAfters
  Changes <- MCChanges
  app = app
  f1 = f1
  f2 = f2
  SourceFiles = {app, f1, f2}
  EntryFile = app
  Outside = Outside
  Texts <- MCTexts
  Conditions <- MCConditions
SPECIFICATION SafetySpec
SYMMETRY MCSymmetry
INVARIANTS RightProgram CacheBounded DeadStaysDead StudioKept OccurrencesRight CompilationRight
PROPERTIES UpdateKept
CHECK_DEADLOCK FALSE
