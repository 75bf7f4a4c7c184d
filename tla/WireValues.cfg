SPECIFICATION Spec
CONSTANTS
  Texts <- TextsMC
  TextLen <- TextLenMC
  Numbers <- NumbersMC
  W32 <- W32MC
  W64 <- W64MC
  Leftovers = {0, 1, 1023}
  Heads <- HeadsMC
  Accepts <- AcceptsMC
  MaxAttributeCalls = 3
  FieldNames = {64, 65, 66, 70}
  FieldValues = {1, 66}
  SameName <- SameNameMC
  Invalid = {70}
  Forbidden = {66}
  IncomingLists <- ListsMC
  NewHandle = 7
  MaxLength = 2
  MaxCalls = 4
  Strings <- StringsMC
  MaxPairs = 3
INVARIANTS
  CodesArrive
  AreasHoldResults
  HostHoldsWhatWasSet
  GettersAgree
  EntriesAgree
  ResultsAgree
  MemoryBalances
  PairsArrive
CHECK_DEADLOCK FALSE
