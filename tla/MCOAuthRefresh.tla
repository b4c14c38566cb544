--------------------------- MODULE MCOAuthRefresh ---------------------------
EXTENDS OAuthRefresh, TLC

CONSTANTS t1, t2
=============================================================================
