---------------------------- MODULE MCSyncTimer ----------------------------
EXTENDS SyncTimer
=============================================================================
