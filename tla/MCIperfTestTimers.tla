-------------------------- MODULE MCIperfTestTimers --------------------------
EXTENDS IperfTestTimers
OneSender == <<"send_timer1">>
NoSender == <<>>
OneSenderProcs == TestProcs \cup {"send_timer1"}
=============================================================================
