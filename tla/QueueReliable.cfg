SPECIFICATION Spec
CONSTANTS
  rec1 = rec1  rec2 = rec2  ing = ing  ref = ref
  w1 = w1  w2 = w2  w3 = w3  p1 = p1  p2 = p2
  dw = dw  dRec = dRec  dIng = dIng  dRef = dRef
  c1 = c1  c2 = c2
  None = None
  Run = {rec1, rec2, ref}
  Worker = {w1, w2}
  Proc = {p1, p2}
  Client = {c1, c2}
  Key = {dw}
  Dedupe = {dRec, dIng, dRef}
  AttemptCap = 2
  Faults = {"crash", "dbError"}
  ProcOf <- MCProcOf
  KeyOf <- MCKeyOf
  DedupeOf <- MCDedupeOf
  MaxOf <- MCMaxOf
  PrioOf <- MCPrioOf
INVARIANTS TypeOK ActiveDedupeUnique RunningIsRecoverable OwnsItsRun ActiveHasAttemptsLeft
PROPERTIES TerminalIsFinal FailuresAreCounted LifecycleSpec
