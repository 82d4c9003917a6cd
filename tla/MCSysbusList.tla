---------------------------- MODULE MCSysbusList ----------------------------
EXTENDS SysbusList
=============================================================================
