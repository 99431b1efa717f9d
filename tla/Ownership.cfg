SPECIFICATION OwnershipFair
CONSTANTS
  Subjects = {"flow", "lifetimes", "shared"}
  Bindings = {1, 2, 3}
  Nobody = nobody
  Styles <- Straight
  MaxLength = 6
  MaxDepth = 2
  Blocks <- ThreeBlocks
  Names = {"x", "y", "z"}
  Bodies <- SmallBodies
  Usages <- SoundUsages
  Jobs = {t1, t2}
  Owner = owner
  References = {1, 2, 3, 4, 5}
  CountLimit = 4
  Nowhere = nowhere
\* An accepted body may come to its end, and a rejected one does nothing;
\* a text may be as long as it gets.
CHECK_DEADLOCK FALSE
INVARIANTS AcceptedFlowIsSafe ReleasedOnEveryPath AcceptedIsSafe UsesAreDefined StaysUntilDropped DestroyedOnce
PROPERTIES BodiesDecided
