SPECIFICATION PoolSpec
CONSTANT Base = 2
INVARIANTS PoolTypeOK PoolIsTheInterval
PROPERTY PoolIsFilled
CHECK_DEADLOCK FALSE
