--------------------------- MODULE MCIperfControl ---------------------------
EXTENDS IperfControl
=============================================================================
