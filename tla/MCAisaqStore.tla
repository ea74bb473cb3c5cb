---------------------------- MODULE MCAisaqStore ----------------------------
EXTENDS AisaqStore
=============================================================================
