SPECIFICATION Spec
CONSTANTS
  Runs = {r1, r2, r3}
  Names <- SomeNames
  Ideas <- SomeIdeas
  Posted <- SomePosts
  Slug <- SomeSlug
  Lower <- SomeLower
  None = None
INVARIANTS TypeOK ReportsStayWithTheirCompany SpellingsKeepTheirSlug IdentityPassesTheGate
CHECK_DEADLOCK FALSE
