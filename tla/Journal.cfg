CONSTANTS
  a1 = a1  a2 = a2  r1 = r1  t1 = t1
  Proc = {a1, a2, r1}
  Op <- Repeating
  Plan <- SamePlan
  Txn = {t1}
  NoJournal = NoJournal
  Nobody = Nobody
  MaxSequence = 3
  MaxFaults = 2
SPECIFICATION Spec
INVARIANTS TypeOK ChainSurvives RecoversWhatItRead ReadsAreCurrent
PROPERTY ImplementsJournalRegister
SYMMETRY Alike
CHECK_DEADLOCK FALSE
