\* Two uploads, one archive name, one restart.
SPECIFICATION FairSpec
CONSTANTS
  u1 = u1
  u2 = u2
  a1 = a1
  Nil = Nil
  Upload = {u1, u2}
  Archive = {a1}
  Nobody = Nil
  MaxRestarts = 1
INVARIANTS TypeOK ArchivesAreWhole TempsHaveOwners
PROPERTIES SuccessIsWhole UploadsEnd
CHECK_DEADLOCK FALSE
