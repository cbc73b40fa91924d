\* One of the URLs is recorded by Wget under another name.
CONSTANTS
  a = a  b = b  c = c  d = d
  Urls = {a, b, c, d}
  NoRedirect = NoRedirect
  Unsafe = Unsafe
  NoEdge = NoEdge
  Seeds = {a}
  Canonical <- WithPath
  Reviews <- AliasReview
  Answers <- AliasAnswers
  MaxHops = 1
  MaxVisited = 4
  MaxKept = 1
SPECIFICATION Spec
INVARIANT HopsBounded
CHECK_DEADLOCK FALSE
