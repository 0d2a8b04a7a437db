-------------------------- MODULE MCFramePipeline --------------------------
\* FramePipeline with small channels: the storage and render channels' one slot is
\* below the two the code never goes under, so that they are full sooner.
EXTENDS FramePipeline

=============================================================================
