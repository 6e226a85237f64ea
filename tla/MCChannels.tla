----------------------------- MODULE MCChannels -----------------------------
(* One or two deliveries of one or two channels. *)
EXTENDS Channels

Mix(a, b, g, f) ==
    [kind |-> [k \in Keys |-> IF k = 1 THEN a ELSE b],
     gens |-> [k \in Keys |-> IF k = 1 THEN g ELSE 1], faults |-> f]

(* One delivery with two faults, two deliveries without. *)
AllMixes ==
    {Mix("queue", "none", 2, 2), Mix("task", "none", 1, 1), Mix("script", "none", 2, 2),
     Mix("webhook", "none", 2, 1), Mix("handoff", "none", 1, 1),
     Mix("cron", "none", 1, 1),
     Mix("queue", "queue", 1, 0), Mix("queue", "cron", 1, 0)}

OneEntry == {Mix("queue", "none", 1, 1)}
OneEntryRefused == {Mix("queue", "none", 1, 2)}
=============================================================================
