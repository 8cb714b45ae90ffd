------------------------------- MODULE MCCall -------------------------------
EXTENDS SipCall
OneEach == {{"100rel"}, {"transfer"}, {"challenge"}, {"early_bye"}}
=============================================================================
