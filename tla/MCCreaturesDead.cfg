SPECIFICATION Spec
CONSTANTS
    Players = {p}
    Monsters = {m1, m2}
    Places = {home}
    Home = home
    Buckets = 2
    Burnable = {m1, m2}
    MaxSummons = 1
    None = none
PROPERTY DeadLeave
CHECK_DEADLOCK FALSE
