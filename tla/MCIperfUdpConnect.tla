------------------------- MODULE MCIperfUdpConnect -------------------------
EXTENDS IperfUdpConnect
=============================================================================
