--------------------------- MODULE MCRPCAggregator ---------------------------
(* TLC instance of RPCAggregator: every batch begins with applyAuthToken.*)
EXTENDS RPCAggregator

Token == <<"applyAuthToken">>
==============================================================================
