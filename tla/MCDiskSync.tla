----------------------------- MODULE MCDiskSync -----------------------------
EXTENDS DiskSync, TLC

=============================================================================
