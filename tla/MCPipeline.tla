----------------------------- MODULE MCPipeline -----------------------------
EXTENDS Pipeline

MCPublisher == 0..MaxRecorded
=============================================================================
