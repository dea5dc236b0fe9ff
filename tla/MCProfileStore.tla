--------------------------- MODULE MCProfileStore ---------------------------
(* ProfileStore from every file a user could have edited by hand.          *)
EXTENDS ProfileStore

MCInitialStores == Config
=============================================================================
