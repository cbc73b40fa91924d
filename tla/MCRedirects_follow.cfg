\* Three URLs, every configuration of reviewed redirects.
CONSTANTS
  a = a  b = b  c = c  d = d
  Urls = {a, b, c}
  NoRedirect = NoRedirect
  Unsafe = Unsafe
  NoEdge = NoEdge
  Seeds = {a}
  Canonical <- AsAsked
  Reviews <- AllReviews
  Answers <- AllAnswers
  MaxHops = 2
  MaxVisited = 3
  MaxKept = 2
SPECIFICATION FairSpec
INVARIANTS
  RecordedBeforeAsked
  AskedOnce
  FailuresResolved
  QuietWhenJudged
PROPERTY SourceEnds
\* A source ends.
CHECK_DEADLOCK FALSE
