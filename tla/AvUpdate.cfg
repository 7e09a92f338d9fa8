SPECIFICATION Spec
CONSTANTS
  old = old
  new = new
  dup = dup
  Dest = Dest
  None = None
  Updaters = {c1, py1}
  Python = {py1}
  Temps = {t1, t2}
  Contents = {old, new, dup}
  Original = old
  Published = {new, dup}
  Events = 2
  Size <- MCSize
  AcceptedC <- MCAcceptedC
  AcceptedPy <- MCAcceptedPy
INVARIANTS
  DestinationSound
  TempsAccounted
  ReportTruthful
PROPERTY
  InstallsAtomically
SYMMETRY TempNames
