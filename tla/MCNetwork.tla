------------------------------ MODULE MCNetwork ------------------------------
(* The network classes for TLC: each behaviour is one of the CNetworkModule, a
   CTcpClient or a CUdpSocket, which share no state; the others stay as created. *)
EXTENDS NetworkModule, TcpClient, UdpSocket

VARIABLE focus

Focus(name, step, others) == focus = name /\ step /\ UNCHANGED <<focus, others>>

MCInit == focus \in {"server", "client", "udp"} /\ NetInit /\ ClientInit /\ UdpInit

MCNext ==
    \/ Focus("server", NetNext, <<clientVars, udpVars>>)
    \/ Focus("client", ClientNext, <<netVars, udpVars>>)
    \/ Focus("udp", UdpNext, <<netVars, clientVars>>)

MCSpec ==
    /\ MCInit /\ [][MCNext]_<<focus, netVars, clientVars, udpVars>>
    /\ NetFairness /\ ClientFairness /\ UdpFairness

(***************************************************************************)
(* Every Stop() of the network classes returns, once its io thread has no  *)
(* work left, with two exceptions that the code has: a connection that was *)
(* registered after ShutdownOnIoThread had run keeps the server's loop     *)
(* alive until its peer closes it, and a CloseOnIoThread that ran while    *)
(* the name was being resolved misses the connection that is made after.   *)
(* For the UDP socket there is no exception, however the close falls       *)
(* between the tests of the io thread and its next receive.                *)
(***************************************************************************)
StopsReturn ==
    (moduleOp = "stopping" \/ client.stopping \/ udpStop # "idle")
      ~> \/ moduleOp = "idle" /\ ~client.stopping /\ udpStop = "idle"
         \/ server.map # {} /\ server.straggler
         \/ heard.missed
=============================================================================
