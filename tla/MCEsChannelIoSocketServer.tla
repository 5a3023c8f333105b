--------------------- MODULE MCEsChannelIoSocketServer ---------------------
EXTENDS EsChannelIoSocketServer
=============================================================================
