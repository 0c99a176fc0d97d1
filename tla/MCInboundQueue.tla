--------------------------- MODULE MCInboundQueue ---------------------------
(***************************************************************************)
(* Small instances of InboundQueue: one payload of every eviction rank,    *)
(* both kinds of never-dropped envelope, and a queue of three or fewer.    *)
(***************************************************************************)
EXTENDS InboundQueue

\* Every eviction rank, and a durable log beside a durable reply.
MCPayloads ==
    { Payload(Heartbeat, "", FALSE), Payload(Log, "MEM", FALSE),
      Payload(Log, "UI", FALSE), Payload("input_observed", "", FALSE),
      Payload(UiResult, "", FALSE), Payload(Log, "ACT", FALSE) }
=============================================================================
