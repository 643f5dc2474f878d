---------------------------- MODULE MCMapReduce ----------------------------
(***************************************************************************)
(* Model checking of MapReduce: three map tasks and two reduce tasks, so   *)
(* that an id of the map phase can be past the end of reduceTasks_.  The   *)
(* functions the tasks compute are checked for small files.                *)
(***************************************************************************)
EXTENDS MapReduce, TLC

CONSTANTS w1, w2, w3

Workers2 == {w1, w2}
Workers3 == {w1, w2, w3}

W == INSTANCE WordCount WITH Letter <- {1, 2}, Other <- {0}

\* Files of at most n characters.
FilesUpTo(n) == UNION {[1 .. k -> W!Characters] : k \in 0 .. n}

\* Two map and two reduce tasks count the words of two files, and one map task
\* those of a longer one, however the words are hashed.
ASSUME WordsAreCounted ==
    /\ \A a, b \in FilesUpTo(3) :
          \A hash \in [W!WordsOf(<<a, b>>) -> 0 .. 1] : W!IsCounted(<<a, b>>, hash, 2)
    /\ \A a \in FilesUpTo(6) :
          \A hash \in [W!WordsOf(<<a>>) -> 0 .. 1] : W!IsCounted(<<a>>, hash, 2)
=============================================================================
