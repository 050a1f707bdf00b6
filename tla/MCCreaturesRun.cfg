SPECIFICATION Spec
CONSTANTS
    Players = {p}
    Monsters = {m1, m2}
    Places = {home, away}
    Home = home
    Buckets = 2
    Burnable = {}
    MaxSummons = 1
    None = none
INVARIANTS
    CreaturesConsistent
CHECK_DEADLOCK FALSE
