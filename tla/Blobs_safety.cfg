\* Two uploads at a time, a reader, two blobs, two records and pages of one entry.
SPECIFICATION Spec
CONSTANTS
    Uploaders = {u1, u2}
    Readers = {r1}
    Blobs = {1, 2}
    Paths = {1, 2}
    Contents <- MCContents
    Limit = 1
    MaxWrites = 2
    MaxUploads = 2
    Free = Free
SYMMETRY Symmetry
INVARIANTS IInv StoredIsWhole AnsweredIsServed WalksMissNothing MigrationCompletes CountsAreCautious
