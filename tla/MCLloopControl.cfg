SPECIFICATION Spec
CONSTANTS
  MaxLoop = 3
  Files <- MCFiles
  Inodes = {"i", "j", "k"}
  Inode <- MCInode
  Attachable <- MCAttachable
  MaxOpens = 2
  None = None
INVARIANTS ReferencesBalance
PROPERTIES ImplementsTable
CHECK_DEADLOCK FALSE
