SPECIFICATION FairSpec
CONSTANTS
  Mappers = {m1, m2}
  Reducers = {r1, r2}
  NumPartitions = 4
  INIT_MAX_KV_PAIR_PARTITION = 2
  KEYSPACE = 16
  strtoul <- MCstrtoul
  Workloads <- MCWorkloads
INVARIANTS FaultOnlyOneKey SentToOneInOrder Delivered SortOutput
PROPERTIES Frozen Terminates
CHECK_DEADLOCK FALSE
