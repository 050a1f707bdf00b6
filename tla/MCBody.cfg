\* A target two steps away and three commands; two objects that decay; six kits
\* of conditions and two rings; seven kinds of conditions, two to be saved.
CONSTANTS
  Far = 2
  Requests = {"use", "push", "attack"}
  MaxEvents = 3
  MaxCommands = 3
  Objects = {x, y}
  Kinds <- MCKinds
  Scripted <- MCScripted
  Buckets = 3
  Kits <- MCKits
  Gear <- MCGear
  Looks = {"man"}
  Late = 1
  SavedTypes = {"fire", "haste", "light", "regeneration", "attributes", "outfit", "drunk"}
  Skills = 2
  Stats = 1
  Amounts = {0, 3}
  MaxParams = 2
  MaxHeld = 2
  Undrafted = Undrafted
SPECIFICATION BodySpec
INVARIANTS WalkConsistent DecayConsistent ConditionsConsistent SavedConsistent
PROPERTY RequestAnswered
CHECK_DEADLOCK FALSE
