SPECIFICATION FairSpec
CONSTANTS
  Threads = {t1, t2, t3}
  NoThread = NoThread
  Fields = {message, enum}
  MessageFields = {message}
  Types = {T}
  NoType = NoType
  Absent = Absent
INVARIANT TypeOK Agreement AskedOnce
PROPERTY EntriesStay Released
