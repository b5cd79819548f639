SPECIFICATION LockSpec
CONSTANTS
  Handle = {h1, h2, h3}
  NoInode = NoInode
  MaxInodes = 2
INVARIANTS Exclusion
PROPERTIES RwLockSpec
CHECK_DEADLOCK FALSE
