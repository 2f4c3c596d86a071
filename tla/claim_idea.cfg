SPECIFICATION Spec
CONSTANTS
  Runs = {r1, r2}
  Names <- IdeaNames
  Ideas <- TwoIdeas
  Posted <- TwoIdeas
  Slug <- IdeaSlug
  Lower <- IdeaLower
  None = None
PROPERTY IdentitiesAreStored
CHECK_DEADLOCK FALSE
