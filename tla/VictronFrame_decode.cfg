SPECIFICATION Spec
CONSTANTS Reports <- MCReports  Lengths = {6, 7, 8, 19, 20, 25, 43}  BufferLen = 40  Spares = {0, 127}  Junk = {0, 255}
INVARIANTS TypeOK PostsWhatWasSent PlausibleIsPosted
