\* Pages of one user that upload, confirm and delete photos at the same time,
\* and ask again for the deletion of a photo without a picture.
\* With all keys used and the user deleted there is nothing left to do.
SPECIFICATION PatientSpec
CONSTANTS
  Key = {k1, k2}
  Photo = {i1, i2}
  Req = {r1, r2}
  MaxPhotos = 1
INVARIANTS TypeOK PhotoBudget OneRowPerKey
PROPERTIES OnlyDeletionBreaks BrokenPhotoGoes
CHECK_DEADLOCK FALSE
