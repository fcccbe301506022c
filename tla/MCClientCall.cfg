SPECIFICATION PartsSpec
CONSTANTS
  c1 = c1  e1 = e1  e2 = e2  e3 = e3  p1 = p1  p2 = p2
  Call = {c1}
  Kinds = {"buffered", "stream", "deferred", "media"}
  Modes = {"safe", "always", "never"}
  Entry = {e1, e2, e3}
  Primary = e1
  ProviderOf <- ChainOf
  Errors <- Failures
  MaxRetries = 1
  Fanouts = {0, 2}
  MaxChunks = 3
  MaxAsks = 5
  Waiting = 2
  MaxEvents = 3
  MaxWaiters = 2
  Dialect = {"openai", "anthropic", "google", "bedrock"}
  Function = {"f", "g"}
  MaxTurns = 2
  MaxPulls = 3
  MaxReads = 4
  Routes <- RoutesKept
  Layers <- LayersKept
  DefaultBound = 2
INVARIANTS FundingCoversTheCall EndsExactlyOnce ProviderBlamedOnce StreamsSettleOnce TranslationIsFaithful
CHECK_DEADLOCK FALSE
