SPECIFICATION Spec
CONSTANTS
  Entities = {1, 2, 3, 4}
  Names = {"relates_to", "depends_on", "uses", "blocks", "name"}
  SeedParent <- SmallParents
  Aliases <- SmallAliases
  LowerCase <- SmallLowerCase
  Facts <- SmallFacts
  Relations <- SmallRelations
  Procs = {"p1", "p2"}
  Texts = {"t"}
  Vectors = {1, 2}
  Canonical = {1}
  Embedding <- SmallEmbedding
  Near <- SmallNear
  Cosine <- SmallCosine
  Exact <- Words
  Parts <- PartsOfWords
  Ends <- EndWords
  Queries <- SmallQueries
  MaxRows = 4
INVARIANTS
  VectorsKept
  FilterMatchesImplication
  PathIsBest
  RecallFillsItsAnswer
PROPERTIES
  CommunitiesFollowFacts
  SiblingScopesApart
