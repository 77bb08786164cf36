------------------------------ MODULE MCIperfUdp ------------------------------
EXTENDS IperfUdp
=============================================================================
