CONSTANTS
  o1 = o1
  o2 = o2
  o3 = o3
  o4 = o4
  o5 = o5
  o6 = o6
  x = x
  k = k
  NoItem = NoItem
  NoRemain = NoRemain
  NoFormation = NoFormation
  NoTag = NoTag
  Object = {o1, o2, o3, o4, o5, o6}
  Key = {k}
  MaxForms = 1
  TextRank <- MCTextRank
  Value <- MCValue
  MaxDepth <- MCMaxDepth
  Depth <- MCDepth
  Payload <- MCPayload
  Code <- MCPayload
  Encode <- MCEncode
  Contents <- MCContents
  Clusters <- MCClusters
  Sequences <- MCSequences
  Forged <- MCForged
SPECIFICATION Spec
INVARIANTS
  TypeOK
  CanonicalFaithful
  TagKeepsVerdict
  CertifiedOrigin
