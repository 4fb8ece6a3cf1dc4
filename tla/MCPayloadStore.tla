--------------------------- MODULE MCPayloadStore ---------------------------
(* Payloads of up to three bytes under every limit that tells them apart.   *)
EXTENDS PayloadStore

CONSTANTS a, b
SmallLimits == {0, 2, NoLimit}
SomeThresholds == {0, 2, NoLimit}
=============================================================================
