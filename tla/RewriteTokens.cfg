CONSTANTS
  Items <- MCLogs
SPECIFICATION RewriteSpec
INVARIANT TokensCopied
CHECK_DEADLOCK FALSE
