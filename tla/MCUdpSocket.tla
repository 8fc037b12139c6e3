---------------------------- MODULE MCUdpSocket ----------------------------
(* Instances of UdpSocket: which task does what.                           *)
EXTENDS UdpSocket, TLC

\* One receiver and one sender, with rebind() and close().
AllKinds == "r" :> "recv" @@ "s" :> "send" @@ "b" :> "rebind" @@ "c" :> "close"

\* The senders of UdpSender and connect(), with a receiver.
UdpSenders == "r" :> "recv" @@ "u" :> "poll_send" @@ "z" :> "try_send"
                @@ "n" :> "connect"

\* A receiver and a best-effort sender, with rebind().
ReceiverRebind == "r" :> "recv" @@ "y" :> "try_send_noq" @@ "b" :> "rebind"

\* A receiver and a UdpSender.
ReceiverUdpSender == "r" :> "recv" @@ "u" :> "poll_send"

\* Two tasks that may both find the socket broken.
ReceiverTrySend == "r" :> "recv" @@ "y" :> "try_send_noq"

ReceiverClose == "r" :> "recv" @@ "c" :> "close"
ReceiverConnect == "r" :> "recv" @@ "n" :> "connect"
AllKindsTasks == DOMAIN AllKinds
UdpSendersTasks == DOMAIN UdpSenders
ReceiverRebindTasks == DOMAIN ReceiverRebind
ReceiverUdpSenderTasks == DOMAIN ReceiverUdpSender
ReceiverTrySendTasks == DOMAIN ReceiverTrySend
ReceiverCloseTasks == DOMAIN ReceiverClose
ReceiverConnectTasks == DOMAIN ReceiverConnect
=============================================================================
