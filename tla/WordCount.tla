----------------------------- MODULE WordCount -----------------------------
(***************************************************************************)
(* What a MapReduce job computes: the functions of WordCount.cpp and what  *)
(* worker.cpp does with them, doMapTask with divideResultsToFile and       *)
(* doReduceTask with reduceKV.  A file's content is a sequence of          *)
(* characters; a word is a sequence of letters, and words are ordered as   *)
(* strings.  The files between the tasks hold one pair per line, and what  *)
(* is written to them is read again as it was: a word has no white space.  *)
(***************************************************************************)
EXTENDS Integers, Sequences, FiniteSets, SequencesExt, TLC

CONSTANTS
    Letter,       \* the characters isalpha accepts, numbers in the order of their codes
    Other         \* other characters

Characters == Letter \cup Other

-----------------------------------------------------------------------------
\* wordCountMapF.

\* The first position from i on with a character of S, or the end.
FirstFrom(content, i, S) ==
    LET end == Len(content) + 1
    IN CHOOSE k \in i .. end :
          /\ k = end \/ content[k] \in S
          /\ \A j \in i .. k - 1 : content[j] \notin S

MapF(content) ==
    LET end == Len(content) + 1
        from[i \in 1 .. end] ==
            IF i = end THEN <<>>
            ELSE LET j == FirstFrom(content, i, Other)
                 IN <<[key |-> SubSeq(content, i, j - 1), val |-> 1]>>
                       \o from[FirstFrom(content, j, Letter)]
    IN from[FirstFrom(content, 1, Letter)]

\* divideResultsToFile: what goes to the file of reduce task r.
Divided(kvs, hash, r) == SelectSeq(kvs, LAMBDA kv : hash[kv.key] = r)

-----------------------------------------------------------------------------
\* reduceKV and wordCountReduceF.

WordBefore(a, b) ==
    \E i \in 1 .. Len(b) :
       /\ i - 1 <= Len(a)
       /\ \A j \in 1 .. i - 1 : a[j] = b[j]
       /\ i > Len(a) \/ a[i] < b[i]

ReduceF(vals) == Len(vals)

\* One group after another of the sorted pairs; the last one after the loop.
ReduceKV(kvs) ==
    LET sorted == SortSeq(kvs, LAMBDA x, y : WordBefore(x.key, y.key))
        Closed(group) ==
            Append(group.ans, [key |-> group.preKey, val |-> ReduceF(group.vals)])
        step(group, kv) ==
            IF kv.key = group.preKey
            THEN [group EXCEPT !.vals = Append(@, kv.val)]
            ELSE [preKey |-> kv.key, vals |-> <<kv.val>>, ans |-> Closed(group)]
    IN IF kvs = <<>> THEN <<>>
       ELSE Closed(FoldLeft(step, [preKey |-> Head(sorted).key, vals |-> <<>>, ans |-> <<>>],
                            sorted))

\* The file mr-out-r of a job over these contents, one for each map task.
Output(contents, hash, r) ==
    ReduceKV(FlattenSeq([m \in DOMAIN contents |-> Divided(MapF(contents[m]), hash, r)]))

-----------------------------------------------------------------------------
\* What is meant: a word is a run of letters that nothing prolongs.

IsWord(content, i, j) ==
    /\ \A k \in i .. j : content[k] \in Letter
    /\ i > 1 => content[i - 1] \notin Letter
    /\ j < Len(content) => content[j + 1] \notin Letter

Runs(content) ==
    {r \in (1 .. Len(content)) \X (1 .. Len(content)) :
        r[1] <= r[2] /\ IsWord(content, r[1], r[2])}

WordsOf(contents) ==
    UNION {{SubSeq(contents[m], r[1], r[2]) : r \in Runs(contents[m])} : m \in DOMAIN contents}

CountOf(contents, word) ==
    Cardinality(UNION {{<<m, r>> : r \in {q \in Runs(contents[m]) :
                                            SubSeq(contents[m], q[1], q[2]) = word}} :
                       m \in DOMAIN contents})

\* The outputs of N reduce tasks name each word of the inputs once, in the file
\* of its hash, with the number of its occurrences, and nothing else.
IsCounted(contents, hash, N) ==
    \A r \in 0 .. N - 1 :
        LET out == Output(contents, hash, r)
            mine == {w \in WordsOf(contents) : hash[w] = r}
        IN /\ Len(out) = Cardinality(mine)
           /\ \A w \in mine : \E k \in DOMAIN out :
                 out[k] = [key |-> w, val |-> CountOf(contents, w)]
=============================================================================
