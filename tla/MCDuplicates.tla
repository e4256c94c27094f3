---------------------------- MODULE MCDuplicates ----------------------------
\* Three paths, two of them in one folder, and three hashes of which two fold
\* to one key.
EXTENDS DuplicateIndex

CONSTANTS p1, p2, p3, ha, hb, hc

MCPaths == {p1, p2, p3}
MCFolders == {{p1, p2}, MCPaths}
MCSearches == {MCPaths, {p1}}
MCHashes == {ha, hb, hc}
MCKeys == {"ab", "c"}
MCKey == [h \in MCHashes |-> IF h = hc THEN "c" ELSE "ab"]
MCSize == [h \in MCHashes |-> IF h = hc THEN 3 ELSE 2]
=============================================================================
