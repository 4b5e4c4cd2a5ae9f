SPECIFICATION Spec
CONSTANTS
  t1 = t1
  t2 = t2
  t3 = t3
  p1 = p1
  p2 = p2
  Threads = {t1, t2}
  Processes = {p1}
  ProcessOf <- OneProcess
  Flights = {"f1", "g1", "g2"}
  Continuations = {"g1", "g2"}
  Layovers = {"l1"}
  Chains = {"c1"}
  Workflows = {"w1"}
  Learnt = {"x1"}
  Requests = {"q1", "q2", "q3"}
  Runs = {"r1"}
  Continues <- OfTheRun
  Asked <- AskedBoth
  SegmentOf <- OfDays
  Segments = {"help-1", "help-2"}
  SegmentsOf <- DaysOf
  Initial <- Initials
  Absent = Absent
  Nobody = Nobody
  Judges = FALSE
  MaxCalls = 1
  MaxFaults = 1
  MaxCrashes = 0
CHECK_DEADLOCK FALSE
INVARIANT BothOrNeither
