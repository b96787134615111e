------------------------ MODULE MCMeasurementService ------------------------
(* Bytes of two bits.                                                      *)
EXTENDS MeasurementService

\* An echo one longer than the counter can tell from none: it reads 1.
EchoLengths == {513}
SentReadings == {<<0, 0, 0, 0>>, <<2, 1, 3, 0>>}
=============================================================================
