----------------------------- MODULE MCAppNode -----------------------------
EXTENDS AppNode
CONSTANT v1
MCLog == <<AddPeer, v1, AddPeer, RemoveSelf>>
=============================================================================
