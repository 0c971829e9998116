---------------------------- MODULE MCClmEngine ----------------------------
(* A few requests that share candidates and a cache of two entries.  The *)
(* products are the greatest for text a, and its logits overflow if they *)
(* are divided by 1/3 before the greatest is subtracted; divided by 3,   *)
(* those of b and a come as close as softmax may fail to tell apart.     *)
EXTENDS ClmEngineProperties, TLC

CONSTANTS t1, t2, a, b, c, long, noThread

MCThreads == {t1, t2}
MCSimilarity == a :> 3 @@ b :> 2 @@ c :> -1 @@ long :> 0

Short(kind, texts) == [kind |-> kind, texts |-> texts, longState |-> FALSE]
Choice(texts) == Short("choice", texts)
Payload(questions, num, den) ==
    [questions |-> questions, temperature |-> [num |-> num, den |-> den]]
MCAnswered == {Payload(<<Choice(<<b, a>>), Short("score", <<c, a>>)>>, 1, 3),
               Payload(<<Choice(<<b, a>>)>>, 3, 1), Payload(<<Short("noul", <<c, a>>)>>, 4, 5)}
MCRejected == {Payload(<<Choice(<<long>>)>>, 1, 1), Payload(<<Choice(<<>>)>>, 1, 1),
               Payload(<<Short("unsupported", <<a>>)>>, 1, 1),
               Payload(<<[kind |-> "noul", texts |-> <<c, a>>, longState |-> TRUE]>>, 1, 1),
               Payload(<<Choice(<<a>>)>>, 0, 1), Payload(<<Choice(<<a>>)>>, 101, 1)}
MCPayloads == MCAnswered \cup MCRejected
MCOnePayload == {Payload(<<Choice(<<a>>), Choice(<<b>>)>>, 1, 1)}
=============================================================================
