SPECIFICATION OwnershipSpec
CONSTANTS
  Subjects = {"flow"}
  Bindings = {1, 2, 3}
  Nobody = nobody
  Styles <- Revivers
  MaxLength = 6
  MaxDepth = 2
  Blocks <- ThreeBlocks
  Names = {"x", "y", "z"}
  Bodies <- SmallBodies
  Usages <- SoundUsages
  Jobs = {t1, t2}
  Owner = owner
  References = {1, 2, 3, 4, 5}
  CountLimit = 4
  Nowhere = nowhere
CHECK_DEADLOCK FALSE
INVARIANTS ReleasedOnEveryPath
