CONSTANTS
  Mails = {m1}
  Copies = {k1, k2}
  Workers = {w1, w2}
  Nobody = Nobody
  Attempts = 2
  MaxStalled = 1
  MaxFaults = 3
SPECIFICATION EmailFairSpec
INVARIANTS EmailTypeOK CopiesBounded OutcomeJustified TrueMeansQueued
PROPERTIES MailKept
CHECK_DEADLOCK FALSE
