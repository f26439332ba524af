------------------------ MODULE MCEthStratumClient ------------------------
EXTENDS EthStratumClient

\* Two explicit modes, one of them over TLS too, and autodetection
MCSchemes == [version : {1, 3, AutoDetect}, secure : {FALSE}] \cup [version : {3}, secure : {TRUE}]
=============================================================================
