------------------------------ MODULE MCHasher ------------------------------
\* Three files.  In one scan two large files are equal and the third has other
\* ends; in one, two are small, to be hashed at once, and one empty; in the
\* last, two files of their own size are hashed because every file is.
EXTENDS Hasher

MCFiles == 1..3
MCContents == {"empty", "small", "twin", "other"}
MCSize == [c \in MCContents |-> CASE c = "empty" -> 0 [] c = "small" -> 1 [] OTHER -> 2]
MCQuick == [c \in MCContents |-> IF c = "other" THEN "y" ELSE "x"]
MCCarried == {{1, 3}}
MCScans == { [content |-> <<"twin", "twin", "other">>, hashAll |-> FALSE],
             [content |-> <<"small", "small", "empty">>, hashAll |-> FALSE],
             [content |-> <<"small", "other", "empty">>, hashAll |-> TRUE] }
=============================================================================
