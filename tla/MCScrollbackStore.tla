--------------------------- MODULE MCScrollbackStore ------------------------
EXTENDS ScrollbackStore
MCLines == <<0, 1>>
=============================================================================
