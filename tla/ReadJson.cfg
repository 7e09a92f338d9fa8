SPECIFICATION Spec
CONSTANTS
  CPrograms = {"readjson", "rdr2dot0"}
  DbPrograms = {"antivermis"}
  PyPrograms = {"readjson.py", "inspect_file"}
  PyHashers = {"inspect_file"}
  ShaPrograms = {"av_update", "scan_file"}
  Scanners = {"scan_file"}
  Pretties = {"readjson"}
  Characters <- MCCharacters
  NewText = {"1", "]"}
  Texts <- MCTexts
  Streams <- MCStreams
  MaxInput = 11
  Initial = 2
  Chunk = 3
  Events = 2
  MaxDepth = 2
  HexDigits = 2
  MaxOutput = 18
  Stdio = 3
  Line <- MCLine
  FileSizes = {0, 1, 2}
  MaxSignatures = 2
  LabelSize = 4
  PyLabelSize = 4
  Block = 4
  LengthSize = 2
  Keep = 2
  Indicators <- MCIndicators
  Unprinted = {" ", "nl", "ctl", "nul"}
INVARIANTS
  ReadsWhole
  RefusalHasCause
  PrintsExactlyJson
  OutputFaithful
  SignaturesAgree
  PiecesDoNotMatter
CHECK_DEADLOCK FALSE
