------------------------------ MODULE MCTerminal ------------------------------
EXTENDS Terminal, TLC

MCMaxSize == Job :> 4 @@ Block :> 2
=============================================================================
