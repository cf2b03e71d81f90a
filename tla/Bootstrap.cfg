SPECIFICATION Spec
CONSTANTS
  Procs = {p1, p2, p3}
  Dirs = {d1, d2}
  Keys = {k1, k2}
  Nil = Nil
  Layout <- MCLayout
  Server = "bin/xsos"
  Assets = "web-assets.json"
  Compiled = "built"
  Version = "1"
  Releases <- MCReleases
SYMMETRY Symmetry
INVARIANTS
  DatabaseAlone
  ServesFitDatabase
  RunsExactRelease
PROPERTY CreatorOnly
