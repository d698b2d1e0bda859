SPECIFICATION FairSpec
CONSTANTS
  User = {u1, u2}
  FirstUser = u1
  Nobody = Nobody
  MaxPendingWrites = 2
  MaxWrites = 3
  MaxUpsets = 2
INVARIANTS TypeOK RepliesMatchPipeline RightAccount AcknowledgedIsLatest SettledIsKnown CompletionsAreRight IdleOnlyWhenDone CredentialsAreAwaited AppliedInOrder NoWriteForgotten
PROPERTIES KeepsPromise Drains
CHECK_DEADLOCK FALSE
