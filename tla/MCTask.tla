------------------------------- MODULE MCTask -------------------------------
(* Small instances of Task: streams of a few commands, a buffer of a few bytes. *)
EXTENDS Task, Sequences

\* A stream of commands with the lengths they declare, cut off or padded to total.
Stream(lens, total) ==
    LET start[k \in 1..Len(lens) + 1] ==
            IF k = 1 THEN 0 ELSE start[k - 1] + lens[k - 1]
    IN  [cmds |-> Len(lens), len |-> lens, start |-> start, total |-> total]

\* Two whole commands and one cut off, a length above CAP, one below HEAD.
AnyStreams == {Stream(<<2, 4, 3>>, 8), Stream(<<2, 5>>, 5), Stream(<<2, 1>>, 7)}

\* Commands of all lengths with room for one byte more in the buffer.
GoodStreams == {Stream(<<2, 4, 3>>, 9), Stream(<<3, 3>>, 5)}
=============================================================================
