SPECIFICATION FairSpec
CONSTANTS
  t1 = t1  t2 = t2
  Queues <- BothQueues
  Task = {t1, t2}
  ChangeBudget = 2
INVARIANT HeldMeansNotConsuming
