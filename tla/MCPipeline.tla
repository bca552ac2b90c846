----------------------------- MODULE MCPipeline -----------------------------
(* Instances of Pipeline: the chains main() builds.                        *)
EXTENDS Pipeline

IQFloatFile == <<"AsyncSampling", "RemoveDCRTL", "IQSink">>
IQServer == <<"AsyncSampling", "RemoveDCRTL", "AvroIQ", "Transmission">>
PSDFile == <<"SyncSampling", "FFT", "Averaging", "FileSink">>

=============================================================================
