SPECIFICATION LiveSpec
CONSTANTS
  t0 = t0
  t2 = t2
  Callers = {t0, t2}
  Closers = {a1, a2}
  MaxAttempts <- MCMaxAttempts
  RetryOn = {"timeout", "connError"}
PROPERTIES RetryDiscipline ThreadsReturn
