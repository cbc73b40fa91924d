\* Two exports of a capture to one destination, while a file of it is altered
\* and put back.
CONSTANTS
  manifest = manifest  meta = meta  log = log  note = note  warc = warc  extra = extra  s = s
  NoSource = NoSource
  SourceKind <- MCSourceKind
  Stray = Stray
  Tampered = Tampered
  NoPage = NoPage
  Exporters = {e1, e2}
  Files <- MCFiles
  Sealed <- MCSealed
  Walk <- MCWalk
  Manifest = manifest
  Meta = meta
  Path <- MCPath
  BaseName <- MCBaseName
  Warc <- MCWarc
  MaxEdits = 1
  Gone = Gone
  Nothing = Nothing
  Foreign = Foreign
SYMMETRY ExporterSymmetry
SPECIFICATION Spec
INVARIANTS
  ExportIsTheCapture
  TamperingShows
  IndexIsExact
PROPERTY NotReplaced
\* Every export ends, and then nothing may be left to do.
CHECK_DEADLOCK FALSE
