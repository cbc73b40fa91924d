\* Two builds and a search while three readers of two collections are made.
CONSTANTS
  c1 = c1  c2 = c2  a = a  b = b  d = d  i = i  j = j  x = x  y = y  z = z
  q1 = q1  q2 = q2  r1 = r1  r2 = r2  bare = bare  up = up
  None = None
  Safe <- MCSafe
  Occurs <- MCOccurs
  Collections = {c1, c2}
  Builders = {p1, p2}
  Searchers = {s1}
  Trees = {t1, t2}
  MaxReader = 3
  Reader <- MCReader
  Drafts <- MCDrafts
  Readable <- MCReadable
  Valid <- MCValid
  Storable <- MCStorable
  NoKey = NoKey  Out = Out  Free = Free
SPECIFICATION FairSpec
INVARIANTS
  LatestIsWhole
  SearchIsAnswered
  LinksResolve
  OneTreePerKey
  DatabaseTakesAccepted
PROPERTIES
  NeverOlder
  BuildEnds
\* Every build ends.
CHECK_DEADLOCK FALSE
