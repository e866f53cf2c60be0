\* Two workers and two requests at a host that takes one call; one worker and one
\* request call for generations, the others for embeddings.
CONSTANTS
  enricher = enricher
  embedder = embedder
  r1 = r1
  r2 = r2
  None = None
  Workers = {enricher, embedder}
  Generators = {enricher, r2}
  Requests = {r1, r2}
  Permits = 1
  Generate = 2
  Embed = 1
  Ttl = 2
  Probe = 1
  Models = 1
  Grace = 3
SPECIFICATION Spec
INVARIANTS
  NoPermitIsLost
  ModelWaitBounded
  StatusIsRecent
  StatusWaitBounded
PROPERTIES
  ProbesSpaced
  QuickRequestsSurvive
