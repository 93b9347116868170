---------------------------- MODULE Connections ----------------------------
\* What the parts of the server that handle connections have in common.
CONSTANTS
  Conns,  \* connections of clients; an object is named by the one that allocates it
  Ids     \* user ids, as the authenticator returns them
=============================================================================
