----------------------------- MODULE MCKeyFiles -----------------------------
(* Every command line of up to three of these arguments, and those that start a
   program with key files.  With ports of two bits and an unsigned long of four,
   3 is the last port, 4 is out of range, 16 out of unsigned long, and -14 is 2. *)
EXTENDS KeyFiles

Arguments3 ==
    {<<word>> : word \in Words}
    \cup {<<"task", task>> : task \in {"sign", "verify", "sha256"}}
    \cup {<<"input", input>> : input \in Inputs}
    \cup {<<"port", n>> : n \in {3, 4, 16, -14, NotANumber}}

ShortLines == UNION {[1..n -> Arguments3] : n \in 0..3}
StartingLines == {line \in ShortLines : Selected(line) \in Tasks}
=============================================================================
