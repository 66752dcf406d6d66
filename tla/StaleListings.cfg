SPECIFICATION Spec
CONSTANTS
  Remotes = {r1, r2}
  Aliases = {}
  Unknown = Unknown
INVARIANT NothingPushedBeforeSync
