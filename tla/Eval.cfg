SPECIFICATION Spec
CONSTANTS
  Programs <- AFew
  Allowed <- AllowedIn
  MaxBlocks = 3
  MaxChoices = 4
INVARIANTS FrameFits MeansTheSame RefusesMisplaced
PROPERTY Finishes
