---------------------------- MODULE MCEventStore ----------------------------
(* An instance of EventStore: a swap, its log and the candles around it, of *)
(* which the smoke runs copy the latest, and a candle of the exchange's     *)
(* latest.                                                                  *)
EXTENDS EventStore

CONSTANTS a, b

MCKeys == {"older", "minute", "swap", "log"}
MCKind == [older |-> "kline", minute |-> "kline", swap |-> "swap", log |-> "log"]
MCRank == [older |-> 1, minute |-> 2, swap |-> 3, log |-> 4]
MCWindow == {"older", "minute", "swap", "log"}
MCRecent == {"minute"}
MCMaxVersion == [older |-> 0, minute |-> 2, swap |-> 0, log |-> 0]

Beside(c, d) == [r \in {a, b} |-> IF r = a THEN c ELSE d]

MCMixes == {Beside({"events"}, {"events", "jsonb"}), Beside({"search"}, {"index"}),
            Beside({"compare"}, {"benchmark"}), Beside({"hybrid"}, {"memory"})}

\* The benchmarks copy more candles than the smoke runs do.
MCLimit == [c \in Commands |-> [s \in Limited |->
    IF s = "klineDocs" /\ c \notin {"benchmark", "index"} THEN 1 ELSE 3]]
=============================================================================
