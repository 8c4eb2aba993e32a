----------------------------- MODULE MCWorkspace ----------------------------
EXTENDS Workspace
=============================================================================
