----------------------------- MODULE MCSessions -----------------------------
(***************************************************************************)
(* Small instances of Sessions: who calls, what simulators send.           *)
(***************************************************************************)
EXTENDS Sessions, TLC

\* Calls, and ids when none is the default, are interchangeable.
CallSymmetry == Permutations(Calls)

Wait(kind) == Op("wait", kind, {}, {})
Send       == Op("send", "Any", {}, {})
View(m, x) == Op("view", "Any", m, x)

\* Racing waits for paint, and the result that ends them.
PaintWaits   == {Wait(UiResult)}
PaintReplies == {Payload(UiResult, "", FALSE)}

\* What streams carry by themselves, and a view that hides some of it.
StreamOps   == {View({Heartbeat, Log}, {"MEM"}), Send}
StreamItems == {Payload(Heartbeat, "", FALSE), Payload(Goodbye, "", FALSE),
                Payload(Log, "MEM", FALSE)}

\* A call of each way to end, and replies that match one kind of wait or none.
LiveOps     == {Wait("Any"), Wait(UiResult), View({Log}, {"MEM"})}
LiveReplies == {Payload(InputAck, "", TRUE), Payload(UiResult, "", FALSE)}
=============================================================================
