CONSTANTS
  p1 = p1
  p2 = p2
  p3 = p3
  v1 = v1
  v2 = v2
  v3 = v3
  coding = coding
  general = general
  None = None
  r1 = r1
  r2 = r2
  Requests <- MCRequests
  Prompts = {p1, p2, p3}
  Routes = {coding, general}
  Vectors = {v1, v2, v3}
  Models = {"gpt", "llama", "claude"}
  Tokens = {"key"}
  Class = coding
  Aliases = {"alias", "bad"}
  ClassAlias = "alias"
  Truncated <- MCTruncated
  Similarity <- MCSimilarity
  ProviderOf <- MCProviderOf
  Scenarios <- MCScenarios
SPECIFICATION Spec
SYMMETRY SameRequests
INVARIANTS TypeOK OneRecordDecides HitsAreFresh RoutedHasModel CapabilityIsKept
PROPERTY EvictsLeastRecent
