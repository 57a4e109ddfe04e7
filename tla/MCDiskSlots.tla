---------------------------- MODULE MCDiskSlots ----------------------------
EXTENDS DiskSlots
=============================================================================
