SPECIFICATION FairSpec
CONSTANTS
  MaxOptions = 3
  Floor = 60
  Confidences = {30, 60}
  Words = {"depends_on", "fixes", "needs", "none", "runs"}
  Alphabet <- SmallAlphabet
  WordLength <- SmallLength
  Distance <- SmallDistance
  Hint <- SmallHint
  Sentinels <- SmallSentinels
  Sessions = {s1, s2}
  Candidates = {c1}
  PredicateOf <- SmallPredicates
  SeededWords = {"depends_on", "fixes"}
  Coined = {"none"}
  Tree <- SmallTree
INVARIANTS
  SuggestionsStayInVocabulary
PROPERTIES
  AnswersAreTrue
  StalledEndpointBlocksNobody
