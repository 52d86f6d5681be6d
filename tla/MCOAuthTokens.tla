---------------------------- MODULE MCOAuthTokens ----------------------------
EXTENDS OAuthTokens, TLC

Symmetry == Permutations(Codes) \cup Permutations(Auths) \cup Permutations(RTs)
            \cup Permutations(Exchanges) \cup Permutations(Refreshes)
==============================================================================
