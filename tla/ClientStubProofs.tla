-------------------------- MODULE ClientStubProofs --------------------------
(***************************************************************************)
(* Whatever the number of servers and descriptors: the properties of       *)
(* ClientStub follow from the order of the steps of its two threads.       *)
(***************************************************************************)
EXTENDS ClientStub, TLAPS

USE DEF command, rtree, stub, zookeeper, MainMoves, WatcherMoves, Roles, NoFd

\* The client starts with no connection and no listener (tree_client.c, main).
LEMMA InvariantInit == Init => IInv
<1> SUFFICES ASSUME Init PROVE IInv
  OBVIOUS
<1> USE DEF Init
<1>1. TypeOK
  BY DEF TypeOK
<1>2. ThreadsConsistent /\ FlagsConsistent /\ ConnectPrepared
  BY DEF ThreadsConsistent, FlagsConsistent, ConnectPrepared, Connecting
<1>3. \A r \in Roles : ~IsOpen(sockfd[r])
  BY DEF IsOpen
<1>4. SocketsConsistent /\ ClosingConsistent
  BY <1>3 DEF SocketsConsistent, ClosingConsistent
<1>5. ReadConsistent /\ RequestRouted
  BY DEF ReadConsistent, RequestRouted
<1> QED BY <1>1, <1>2, <1>4, <1>5 DEF IInv

-----------------------------------------------------------------------------
(* Types.                                                                  *)

\* The ghost stays a Boolean.
LEMMA MissedType == ASSUME TypeOK, NEW m, NEW w PROVE Missed(m, w) \in BOOLEAN
BY DEF TypeOK, Missed, Connecting, Notified, Listener

\* So does a change of the children, whatever it is.
LEMMA ChildrenType ==
  ASSUME TypeOK, NEW nodes \in [Roles -> Servers \cup {NoServer}], ChildrenBecome(nodes),
         status' \in [Servers -> {"new", "up", "down"}]
  PROVE  TypeOK'
<1>1. /\ UNCHANGED <<mpc, command, found, wpc, wfd, stub, missed>>
      /\ znode' \in [Roles -> Servers \cup {NoServer}]
      /\ event' \in BOOLEAN /\ watch' \in BOOLEAN
  BY DEF ChildrenBecome, TypeOK
<1> QED BY <1>1 DEF TypeOK

\* Every action keeps the types.
LEMMA TypesNext == ASSUME TypeOK, Next PROVE TypeOK'
<1> USE MissedType DEF TypeOK
<1>1. CASE ZkConnect
  BY <1>1 DEF ZkConnect
<1>2. CASE Parse
  BY <1>2 DEF Parse
<1>3. CASE NotRegistered
  BY <1>3 DEF NotRegistered, Returned
<1>4. CASE SetConnected
  BY <1>4 DEF SetConnected, Returned
<1>5. CASE RegisterListener
  BY <1>5 DEF RegisterListener
<1>6. CASE Retry
  BY <1>6 DEF Retry
<1>7. CASE Command
  BY <1>7 DEF Command
<1>8. CASE Send
  BY <1>8 DEF Send, SocketOf, IsOpen
<1>9. CASE SendFails
  BY <1>9 DEF SendFails
<1>10. CASE Receive
  BY <1>10 DEF Receive
<1>11. CASE Quit
  BY <1>11 DEF Quit
<1>12. CASE ClearConnected
  <2>1. missed' \in BOOLEAN
    BY <1>12 DEF ClearConnected
  <2>2. /\ UNCHANGED <<command, found, wpc, wfd, rtree, listening, peer, zookeeper>>
        /\ mpc' = "zk_close" /\ connected' \in BOOLEAN
    BY <1>12 DEF ClearConnected
  <2> QED BY <2>1, <2>2
<1>13. CASE ZkClose
  <2>1. missed' \in BOOLEAN
    BY <1>13 DEF ZkClose
  <2>2. /\ UNCHANGED <<command, found, wpc, wfd, rtree, connected, peer, zookeeper>>
        /\ mpc' = "zookeeper_close" /\ listening' \in BOOLEAN
    BY <1>13 DEF ZkClose
  <2> QED BY <2>1, <2>2
<1>14. CASE ZookeeperClose
  BY <1>14 DEF ZookeeperClose
<1>15. CASE Destroy
  <2>1. missed' \in BOOLEAN
    BY <1>15 DEF Destroy
  <2>2. /\ UNCHANGED <<command, found, wpc, wfd, ip, address, sockfd, connected, listening, peer,
                       zookeeper>>
        /\ mpc' \in {"exited", "aborted"} /\ allocated' \in BOOLEAN
    BY <1>15 DEF Destroy
  <2> QED BY <2>1, <2>2
<1>16. CASE Notify
  <2>1. missed' \in BOOLEAN
    BY <1>16 DEF Notify
  <2>2. /\ UNCHANGED <<mpc, command, found, wfd, stub, status, znode, watch>>
        /\ wpc' = "watch_again" /\ event' \in BOOLEAN
    BY <1>16 DEF Notify
  <2> QED BY <2>1, <2>2
<1>17. CASE WatchAgain
  BY <1>17 DEF WatchAgain
<1>18. CASE CheckListener
  BY <1>18 DEF CheckListener
<1>19. CASE CallListener
  BY <1>19 DEF CallListener
<1>20. CASE CallNull
  BY <1>20 DEF CallNull
<1>21. CASE CloseLoaded
  BY <1>21 DEF CloseLoaded, ClosedFd
<1>22. CASE Disconnected
  <2>1. missed' \in BOOLEAN
    BY <1>22 DEF Disconnected
  <2>2. /\ UNCHANGED <<mpc, command, found, wfd, rtree, listening, peer, zookeeper>>
        /\ wpc' = "idle" /\ connected' \in BOOLEAN
    BY <1>22 DEF Disconnected
  <2> QED BY <2>1, <2>2
<1>23. ASSUME NEW r \in Roles, GetAddress(r) PROVE TypeOK'
  BY <1>23 DEF GetAddress
<1>24. ASSUME NEW r \in Roles, FreeAddress(r) PROVE TypeOK'
  BY <1>24 DEF FreeAddress
<1>25. ASSUME NEW r \in Roles, FreeAborts(r) PROVE TypeOK'
  BY <1>25 DEF FreeAborts
<1>26. ASSUME NEW r \in Roles, Connect(r) PROVE TypeOK'
  BY <1>26 DEF Connect
<1>27. ASSUME NEW r \in Roles, ConnectFails(r) PROVE TypeOK'
  BY <1>27 DEF ConnectFails, Returned
<1>28. ASSUME NEW r \in Roles, CloseSocket(r) PROVE TypeOK'
  BY <1>28 DEF CloseSocket, ClosedFd
<1>29. ASSUME NEW r \in Roles, LoadSocket(r) PROVE TypeOK'
  BY <1>29 DEF LoadSocket
<1>30. ASSUME NEW s \in Servers, Register(s) PROVE TypeOK'
  <2>1. PICK nodes \in [Roles -> Servers \cup {NoServer}] : ChildrenBecome(nodes)
    BY <1>30 DEF Register
  <2>2. status' \in [Servers -> {"new", "up", "down"}]
    BY <1>30 DEF Register
  <2> QED BY <2>1, <2>2, ChildrenType
<1>31. ASSUME NEW s \in Servers, Die(s) PROVE TypeOK'
  BY <1>31 DEF Die
<1>32. ASSUME NEW s \in Servers, Expire(s) PROVE TypeOK'
  <2>1. PICK nodes \in [Roles -> Servers \cup {NoServer}] : ChildrenBecome(nodes)
    BY <1>32 DEF Expire
  <2>2. status' \in [Servers -> {"new", "up", "down"}]
    BY <1>32 DEF Expire
  <2> QED BY <2>1, <2>2, ChildrenType
<1>33. ASSUME NEW s \in Servers, Promote(s) PROVE TypeOK'
  <2>1. PICK nodes \in [Roles -> Servers \cup {NoServer}] : ChildrenBecome(nodes)
    BY <1>33 DEF Promote
  <2>2. status' \in [Servers -> {"new", "up", "down"}]
    BY <1>33 DEF Promote
  <2> QED BY <2>1, <2>2, ChildrenType
<1> QED
  BY <1>1, <1>2, <1>3, <1>4, <1>5, <1>6, <1>7, <1>8, <1>9, <1>10, <1>11, <1>12, <1>13,
     <1>14, <1>15, <1>16, <1>17, <1>18, <1>19, <1>20, <1>21, <1>22, <1>23, <1>24, <1>25,
     <1>26, <1>27, <1>28, <1>29, <1>30, <1>31, <1>32, <1>33
  DEF Next, MainThread, ZookeeperThread, Environment

-----------------------------------------------------------------------------
(* The two threads.                                                        *)

\* The ZooKeeper thread rests before zk_connect and after zookeeper_close.
LEMMA ThreadsNext == ASSUME IInv, Next PROVE ThreadsConsistent'
<1> USE DEF IInv, TypeOK, ThreadsConsistent
<1>1. CASE ZkConnect
  BY <1>1 DEF ZkConnect
<1>2. CASE Parse \/ NotRegistered \/ SetConnected \/ RegisterListener
  BY <1>2 DEF Parse, NotRegistered, SetConnected, RegisterListener, Returned
<1>3. ASSUME NEW r \in Roles,
             \/ GetAddress(r) \/ FreeAddress(r) \/ FreeAborts(r) \/ Connect(r)
             \/ ConnectFails(r) \/ CloseSocket(r)
      PROVE  ThreadsConsistent'
  <2>1. /\ mpc \notin {"zk_connect", "exited", "aborted"}
        /\ mpc' \notin {"zk_connect", "destroy", "exited"}
        /\ UNCHANGED allocated
    BY <1>3 DEF GetAddress, FreeAddress, FreeAborts, Connect, ConnectFails, CloseSocket,
                Returned
  <2> QED BY <2>1
<1>4. CASE Retry \/ Command \/ Send \/ SendFails \/ Receive \/ Quit
  BY <1>4 DEF Retry, Command, Send, SendFails, Receive, Quit
<1>5. CASE ClearConnected \/ ZkClose
  BY <1>5 DEF ClearConnected, ZkClose
<1>6. CASE ZookeeperClose
  BY <1>6 DEF ZookeeperClose
<1>7. CASE Destroy
  BY <1>7 DEF Destroy
<1>8. CASE Notify
  BY <1>8 DEF Notify
<1>9. CASE WatchAgain \/ CheckListener \/ CallListener \/ CallNull
  BY <1>9 DEF WatchAgain, CheckListener, CallListener, CallNull
<1>10. CASE CloseLoaded \/ Disconnected \/ \E r \in Roles : LoadSocket(r)
  BY <1>10 DEF CloseLoaded, Disconnected, LoadSocket
<1>11. ASSUME NEW s \in Servers, Register(s) \/ Die(s) \/ Expire(s) \/ Promote(s)
       PROVE  ThreadsConsistent'
  <2>1. UNCHANGED <<mpc, wpc, allocated>> /\ (~watch /\ ~event => ~watch' /\ ~event')
    BY <1>11 DEF Register, Die, Expire, Promote, ChildrenBecome
  <2> QED BY <2>1
<1> QED
  BY <1>1, <1>2, <1>3, <1>4, <1>5, <1>6, <1>7, <1>8, <1>9, <1>10, <1>11
  DEF Next, MainThread, ZookeeperThread, Environment

\* The ghost: what it says of the threads, and that only a retry that finds all
\* sockets closed takes it back.
LEMMA MissedNext ==
  ASSUME IInv, Next
  PROVE  /\ Connecting(mpc') /\ Notified(wpc') => missed'
         /\ missed => missed' \/ (Retry /\ \A r \in Roles : ~IsOpen(sockfd[r]))
<1> USE DEF IInv, TypeOK, FlagsConsistent
<1>1. ASSUME missed' = Missed(mpc', wpc'),
             ~(mpc = "prompt" /\ mpc' = "get_primary")
      PROVE  (Connecting(mpc') /\ Notified(wpc') => missed') /\ (missed => missed')
  BY <1>1 DEF Missed
<1>2. CASE Retry
  BY <1>2 DEF Retry, Missed
<1>3. CASE \/ ZkConnect \/ Parse \/ NotRegistered \/ SetConnected \/ RegisterListener
           \/ Command \/ Send \/ SendFails \/ Receive \/ Quit
           \/ ClearConnected \/ ZkClose \/ ZookeeperClose \/ Destroy
  <2>1. /\ missed' = Missed(mpc', wpc')
        /\ ~(mpc = "prompt" /\ mpc' = "get_primary")
    BY <1>3 DEF ZkConnect, Parse, NotRegistered, SetConnected, RegisterListener, Command,
                Send, SendFails, Receive, Quit, ClearConnected, ZkClose, ZookeeperClose,
                Destroy, Returned
  <2> QED BY <1>1, <2>1
<1>4. ASSUME NEW r \in Roles,
             \/ GetAddress(r) \/ FreeAddress(r) \/ FreeAborts(r) \/ Connect(r)
             \/ ConnectFails(r) \/ CloseSocket(r)
      PROVE  (Connecting(mpc') /\ Notified(wpc') => missed') /\ (missed => missed')
  <2>1. /\ missed' = Missed(mpc', wpc')
        /\ ~(mpc = "prompt" /\ mpc' = "get_primary")
    BY <1>4 DEF GetAddress, FreeAddress, FreeAborts, Connect, ConnectFails, CloseSocket,
                Returned
  <2> QED BY <1>1, <2>1
<1>5. CASE \/ Notify \/ WatchAgain \/ CheckListener \/ CallListener \/ CloseLoaded
           \/ Disconnected \/ \E r \in Roles : LoadSocket(r)
  <2>1. /\ missed' = Missed(mpc', wpc')
        /\ ~(mpc = "prompt" /\ mpc' = "get_primary")
    BY <1>5 DEF Notify, WatchAgain, CheckListener, CallListener, CloseLoaded, Disconnected,
                LoadSocket
  <2> QED BY <1>1, <2>1
<1>6. CASE CallNull
  BY <1>6 DEF CallNull, Notified, Listener
<1>7. ASSUME NEW s \in Servers, Register(s) \/ Die(s) \/ Expire(s) \/ Promote(s)
      PROVE  (Connecting(mpc') /\ Notified(wpc') => missed') /\ (missed => missed')
  <2>1. UNCHANGED <<mpc, wpc, missed>>
    BY <1>7 DEF Register, Die, Expire, Promote, ChildrenBecome
  <2> QED BY <2>1
<1> QED
  BY <1>2, <1>3, <1>4, <1>5, <1>6, <1>7
  DEF Next, MainThread, ZookeeperThread, Environment

\* The flags follow the main thread.
LEMMA FlagsNext == ASSUME IInv, Next PROVE FlagsConsistent'
<1> USE DEF IInv, TypeOK, FlagsConsistent, Connecting, Quitting
<1>1. (Connecting(mpc) /\ Notified(wpc) => missed)'
  BY MissedNext
<1>2. CASE ZkConnect
  BY <1>1, <1>2 DEF ZkConnect
<1>3. CASE Parse \/ NotRegistered \/ SetConnected \/ RegisterListener
  BY <1>1, <1>3 DEF Parse, NotRegistered, SetConnected, RegisterListener, Returned
<1>4. ASSUME NEW r \in Roles, GetAddress(r) \/ FreeAddress(r) \/ FreeAborts(r) \/ CloseSocket(r)
      PROVE  FlagsConsistent'
  BY <1>1, <1>4 DEF GetAddress, FreeAddress, FreeAborts, CloseSocket
<1>5. ASSUME NEW r \in Roles, Connect(r) \/ ConnectFails(r)
      PROVE  FlagsConsistent'
  BY <1>1, <1>5 DEF Connect, ConnectFails, Returned
<1>6. CASE Retry \/ Command \/ Send \/ SendFails \/ Receive \/ Quit
  BY <1>1, <1>6 DEF Retry, Command, Send, SendFails, Receive, Quit
<1>7. CASE ClearConnected \/ ZkClose \/ ZookeeperClose \/ Destroy
  BY <1>1, <1>7 DEF ClearConnected, ZkClose, ZookeeperClose, Destroy
<1>8. CASE Notify \/ WatchAgain
  BY <1>1, <1>8 DEF Notify, WatchAgain
<1>9. CASE CheckListener \/ CallListener \/ CallNull
  BY <1>1, <1>9 DEF CheckListener, CallListener, CallNull
<1>10. CASE CloseLoaded \/ Disconnected \/ \E r \in Roles : LoadSocket(r)
  BY <1>1, <1>10 DEF CloseLoaded, Disconnected, LoadSocket
<1>11. ASSUME NEW s \in Servers, Register(s) \/ Die(s) \/ Expire(s) \/ Promote(s)
       PROVE  FlagsConsistent'
  <2>1. /\ UNCHANGED <<mpc, wpc, connected, listening, missed>>
        /\ watch \/ event => watch' \/ event'
    BY <1>11 DEF Register, Die, Expire, Promote, ChildrenBecome
  <2> QED BY <2>1, <1>1
<1> QED
  BY <1>2, <1>3, <1>4, <1>5, <1>6, <1>7, <1>8, <1>9, <1>10, <1>11
  DEF Next, MainThread, ZookeeperThread, Environment

-----------------------------------------------------------------------------
(* Sockets.                                                                *)

\* Before a connection is made its address has been read and its sockfd is -1.
LEMMA PreparedNext == ASSUME IInv, Next PROVE ConnectPrepared'
<1> USE DEF IInv, TypeOK, ConnectPrepared
<1>1. ASSUME NEW r \in Roles, FreeAddress(r) PROVE ConnectPrepared'
  BY <1>1 DEF FreeAddress
<1>2. ASSUME NEW r \in Roles, Connect(r) \/ ConnectFails(r) PROVE ConnectPrepared'
  BY <1>2 DEF Connect, ConnectFails, Returned
<1>3. CASE ZkConnect \/ Parse \/ NotRegistered \/ SetConnected \/ RegisterListener
  BY <1>3 DEF ZkConnect, Parse, NotRegistered, SetConnected, RegisterListener, Returned
<1>4. ASSUME NEW r \in Roles, GetAddress(r) \/ FreeAborts(r) \/ CloseSocket(r)
      PROVE  ConnectPrepared'
  BY <1>4 DEF GetAddress, FreeAborts, CloseSocket
<1>5. CASE Retry \/ Command \/ Send \/ SendFails \/ Receive \/ Quit
  BY <1>5 DEF Retry, Command, Send, SendFails, Receive, Quit
<1>6. CASE ClearConnected \/ ZkClose \/ ZookeeperClose \/ Destroy
  BY <1>6 DEF ClearConnected, ZkClose, ZookeeperClose, Destroy
<1>7. CASE ZookeeperThread
  <2>1. UNCHANGED <<sockfd, address>> /\ mpc' \in {mpc, "crashed"}
    BY <1>7 DEF ZookeeperThread, Notify, WatchAgain, CheckListener, CallListener, CallNull,
                CloseLoaded, Disconnected, LoadSocket
  <2> QED BY <2>1
<1>8. CASE Environment
  <2>1. UNCHANGED <<sockfd, address, mpc>>
    BY <1>8 DEF Environment, Register, Die, Expire, Promote, ChildrenBecome
  <2> QED BY <2>1
<1> QED
  BY <1>1, <1>2, <1>3, <1>4, <1>5, <1>6, <1>7, <1>8 DEF Next, MainThread

\* The sockfd of a socket that is not there is no descriptor.
LEMMA NoFdClosed == NoFd \notin Fds
BY ClientStubAssumption

\* The two sockets are what the progress of both threads says.
LEMMA SocketsNext == ASSUME IInv, Next PROVE SocketsConsistent'
<1> USE DEF IInv, TypeOK, SocketsConsistent, AllOpen, IsOpen, Quitting
<1> SUFFICES ASSUME ~missed' PROVE SocketsConsistent'
  OBVIOUS
<1>0. /\ ~(Connecting(mpc') /\ Notified(wpc'))
      /\ missed => Retry /\ \A r \in Roles : ~IsOpen(sockfd[r])
  BY MissedNext
<1>1. CASE Retry
  <2>1. \A r \in Roles : ~IsOpen(sockfd[r])
    BY <1>0, <1>1 DEF Retry
  <2> QED BY <1>1, <2>1 DEF Retry
<1> SUFFICES ASSUME ~missed PROVE SocketsConsistent'
  BY <1>0, <1>1
<1>2. ASSUME UNCHANGED <<peer, sockfd, address, connected>>, mpc' # "connect_backup",
             mpc' = "set_connected" => mpc = "set_connected",
             Quitting(mpc) => Quitting(mpc'), Listener(wpc) => Listener(wpc'),
             Quitting(mpc') \/ connected \/ mpc \notin {"connect_backup", "set_connected"}
      PROVE  SocketsConsistent'
  BY <1>2
<1>3. CASE ZkConnect \/ Parse
  BY <1>3 DEF ZkConnect, Parse, ConnectPrepared, FlagsConsistent, Connecting
<1>4. CASE \/ NotRegistered \/ RegisterListener \/ Command \/ Send \/ SendFails \/ Receive
           \/ Quit \/ ZkClose \/ ZookeeperClose \/ Destroy
  BY <1>2, <1>4
  DEF NotRegistered, RegisterListener, Command, Send, SendFails, Receive, Quit, ZkClose,
      ZookeeperClose, Destroy, Returned
<1>5. CASE SetConnected \/ ClearConnected
  BY <1>5 DEF SetConnected, ClearConnected, Returned
<1>6. ASSUME NEW r \in Roles, GetAddress(r) \/ FreeAborts(r) PROVE SocketsConsistent'
  BY <1>2, <1>6 DEF GetAddress, FreeAborts
<1>7. ASSUME NEW r \in Roles, FreeAddress(r) PROVE SocketsConsistent'
  <2>1. /\ ~connected /\ ~connected' /\ mpc' \in {"free_backup", "parse"}
        /\ mpc \in {"free_primary", "free_backup"} /\ UNCHANGED peer
        /\ sockfd' = [sockfd EXCEPT ![r] = NoFd]
    BY <1>7 DEF FreeAddress, FlagsConsistent, Connecting
  <2>2. \A q \in Roles : ~IsOpen(sockfd[q])
    BY <2>1
  <2>3. \A q \in Roles : ~IsOpen(sockfd[q])'
    BY <2>1, <2>2, NoFdClosed
  <2> QED BY <2>1, <2>3
<1>8. CASE Connect("primary")
  <2>1. PICK fd \in Fds : /\ sockfd' = [sockfd EXCEPT !["primary"] = fd]
                          /\ peer' = [peer EXCEPT ![fd] = address["primary"]]
    BY <1>8 DEF Connect
  <2>2. /\ ~connected' /\ mpc' = "connect_backup" /\ UNCHANGED address
        /\ address["primary"] # NoServer /\ sockfd["backup"] = NoFd
    BY <1>8 DEF Connect, ConnectPrepared, FlagsConsistent, Connecting
  <2>3. ~IsOpen(sockfd["backup"])'
    BY <2>1, <2>2, NoFdClosed
  <2> QED BY <2>1, <2>2, <2>3
<1>9. CASE Connect("backup")
  BY <1>9 DEF Connect, ConnectPrepared, FlagsConsistent, Connecting, LowestClosed
<1>10. ASSUME NEW r \in Roles, ConnectFails(r) PROVE SocketsConsistent'
  <2>1. /\ ~connected' /\ mpc' \notin {"connect_backup", "set_connected"}
        /\ \A q \in Roles : sockfd'[q] = NoFd
    BY <1>10 DEF ConnectFails, FlagsConsistent, Connecting, Returned
  <2>2. \A q \in Roles : ~IsOpen(sockfd[q])'
    BY <2>1, NoFdClosed
  <2> QED BY <2>1, <2>2
<1>11. ASSUME NEW r \in Roles, CloseSocket(r) PROVE SocketsConsistent'
  BY <1>11 DEF CloseSocket, ClosedFd
<1>12. CASE Notify \/ WatchAgain \/ CheckListener \/ CallListener \/ \E r \in Roles : LoadSocket(r)
  <2>1. UNCHANGED <<mpc, peer, sockfd, address, connected>> /\ (Listener(wpc) => Listener(wpc'))
    BY <1>12 DEF Notify, WatchAgain, CheckListener, CallListener, LoadSocket, Listener
  <2> QED BY <2>1
<1>13. CASE CallNull
  BY <1>13 DEF CallNull
<1>14. CASE CloseLoaded
  BY <1>14, <1>0 DEF CloseLoaded, ClosedFd, Connecting, Notified, Listener
<1>15. CASE Disconnected
  BY <1>15 DEF Disconnected, ClosingConsistent, FlagsConsistent, Connecting, Notified, Listener
<1>16. CASE Environment
  <2>1. UNCHANGED <<mpc, wpc, stub>>
    BY <1>16 DEF Environment, Register, Die, Expire, Promote, ChildrenBecome
  <2> QED BY <2>1
<1> QED
  BY <1>1, <1>3, <1>4, <1>5, <1>6, <1>7, <1>8, <1>9, <1>10, <1>11, <1>12, <1>13, <1>14,
     <1>15, <1>16
  DEF Next, MainThread, ZookeeperThread

\* The listener closes the two sockets that the main thread uses, for as long as it
\* runs while the main thread does not connect.
LEMMA ClosingNext == ASSUME IInv, Next PROVE ClosingConsistent'
<1> USE DEF IInv, TypeOK, ClosingConsistent, IsOpen
<1> SUFFICES ASSUME ~missed', ~Quitting(mpc') PROVE ClosingConsistent'
  OBVIOUS
<1>0. /\ ~(Connecting(mpc') /\ Notified(wpc'))
      /\ missed => Retry /\ \A r \in Roles : ~IsOpen(sockfd[r])
  BY MissedNext
<1>1. CASE MainThread
  <2>1. UNCHANGED <<wpc, wfd>>
    BY <1>1 DEF MainThread, ZkConnect, Parse, NotRegistered, SetConnected, RegisterListener,
                GetAddress, FreeAddress, FreeAborts, Connect, ConnectFails, CloseSocket,
                Retry, Command, Send, SendFails, Receive, Quit, ClearConnected, ZkClose,
                ZookeeperClose, Destroy
  <2>2. CASE ~Listener(wpc)
    BY <2>1, <2>2 DEF Listener
  <2>3. CASE Listener(wpc)
    <3>1. ~Connecting(mpc') /\ ~Retry /\ ~missed
      BY <1>0, <2>1, <2>3 DEF Notified, Retry, Connecting
    <3>2. ~Connecting(mpc) /\ mpc # "zk_connect"
      BY <2>3, <3>1 DEF FlagsConsistent, ThreadsConsistent, Notified, Listener
    <3>3. UNCHANGED <<sockfd, peer>> /\ ~Quitting(mpc)
      BY <1>1, <3>1, <3>2
      DEF MainThread, ZkConnect, Parse, NotRegistered, SetConnected, RegisterListener,
          GetAddress, FreeAddress, FreeAborts, Connect, ConnectFails, CloseSocket,
          Command, Send, SendFails, Receive, Quit, ClearConnected, ZkClose,
          ZookeeperClose, Destroy, Connecting, Quitting
    <3> QED BY <2>1, <3>1, <3>3
  <2> QED BY <2>2, <2>3
<1> SUFFICES ASSUME ~missed, ZookeeperThread \/ Environment PROVE ClosingConsistent'
  <2>1. ~Retry \/ MainThread
    BY DEF MainThread
  <2> QED BY <1>0, <1>1, <2>1 DEF Next
<1>2. CASE Notify \/ WatchAgain \/ CheckListener \/ CallListener \/ Disconnected
  BY <1>2 DEF Notify, WatchAgain, CheckListener, CallListener, Disconnected
<1>3. CASE CallNull
  BY <1>3 DEF CallNull, Quitting
<1>4. ASSUME NEW r \in Roles, LoadSocket(r) PROVE ClosingConsistent'
  BY <1>4 DEF LoadSocket
<1>5. CASE CloseLoaded
  BY <1>5 DEF CloseLoaded, ClosedFd
<1>6. CASE Environment
  <2>1. UNCHANGED <<mpc, wpc, wfd, stub>>
    BY <1>6 DEF Environment, Register, Die, Expire, Promote, ChildrenBecome
  <2> QED BY <2>1
<1> QED
  BY <1>2, <1>3, <1>4, <1>5, <1>6 DEF ZookeeperThread

-----------------------------------------------------------------------------
(* What was read, and where requests go.                                   *)

\* What the client read is what ZooKeeper has, or the client is about to know.
LEMMA ReadNext == ASSUME IInv, Next PROVE ReadConsistent'
<1> USE DEF IInv, TypeOK, ReadConsistent
<1> SUFFICES ASSUME ~missed', ~event', wpc' = "idle" PROVE ReadConsistent'
  OBVIOUS
<1>0. missed => Retry
  BY MissedNext
<1>1. CASE Retry
  BY <1>1 DEF Retry
<1> SUFFICES ASSUME ~missed PROVE ReadConsistent'
  BY <1>0, <1>1
<1>2. CASE Parse
  BY <1>2 DEF Parse, FlagsConsistent, Connecting
<1>15. CASE ZkConnect \/ NotRegistered
  BY <1>15 DEF ZkConnect, NotRegistered, Returned, FlagsConsistent, Connecting
<1>16. CASE SetConnected
  <2>1. address = znode /\ mpc' \in {"prompt", "register_listener"}
    BY <1>16 DEF SetConnected, Returned
  <2> QED BY <1>16, <2>1 DEF SetConnected
<1>17. CASE RegisterListener
  BY <1>17 DEF RegisterListener, Quitting
<1>3. CASE GetAddress("primary")
  BY <1>3 DEF GetAddress, FlagsConsistent, Connecting
<1>4. CASE GetAddress("backup")
  BY <1>4 DEF GetAddress, FlagsConsistent, Connecting
<1>5. ASSUME NEW r \in Roles, FreeAddress(r) \/ FreeAborts(r) PROVE ReadConsistent'
  BY <1>5 DEF FreeAddress, FreeAborts, Quitting
<1>6. ASSUME NEW r \in Roles, Connect(r) \/ ConnectFails(r) PROVE ReadConsistent'
  BY <1>6 DEF Connect, ConnectFails, Returned, FlagsConsistent, Connecting
<1>7. ASSUME NEW r \in Roles, CloseSocket(r) PROVE ReadConsistent'
  BY <1>7 DEF CloseSocket, Quitting
<1>8. CASE Command \/ Send \/ SendFails \/ Receive \/ Quit
  BY <1>8 DEF Command, Send, SendFails, Receive, Quit, Quitting
<1>9. CASE ClearConnected \/ ZkClose \/ ZookeeperClose \/ Destroy
  BY <1>9 DEF ClearConnected, ZkClose, ZookeeperClose, Destroy, Quitting
<1>10. CASE CheckListener
  BY <1>10, MissedNext
  DEF CheckListener, FlagsConsistent, ThreadsConsistent, Connecting, Notified, Quitting
<1>11. CASE Disconnected
  BY <1>11, MissedNext
  DEF Disconnected, FlagsConsistent, Connecting, Notified, Listener
<1>12. CASE CallNull
  BY <1>12 DEF CallNull, Quitting
<1>13. CASE Notify \/ WatchAgain \/ CallListener \/ CloseLoaded \/ \E r \in Roles : LoadSocket(r)
  BY <1>13 DEF Notify, WatchAgain, CallListener, CloseLoaded, LoadSocket
<1>14. CASE Environment
  <2>1. UNCHANGED <<mpc, wpc, found, address, connected, missed>>
    BY <1>14 DEF Environment, Register, Die, Expire, Promote, ChildrenBecome
  <2>2. \/ UNCHANGED <<znode, event>>
        \/ event' = (event \/ watch)
    BY <1>14 DEF Environment, Register, Die, Expire, Promote, ChildrenBecome
  <2>3. CASE UNCHANGED <<znode, event>>
    BY <2>1, <2>3
  <2>4. CASE event' = (event \/ watch)
    <3>1. ~event /\ ~watch /\ wpc = "idle"
      BY <2>1, <2>4
    <3>2. mpc = "zk_connect" \/ Quitting(mpc)
      BY <3>1 DEF FlagsConsistent
    <3> QED BY <2>1, <3>2 DEF FlagsConsistent, Quitting
  <2> QED BY <2>2, <2>3, <2>4
<1> QED
  BY <1>1, <1>2, <1>3, <1>4, <1>5, <1>6, <1>7, <1>8, <1>9, <1>10, <1>11, <1>12, <1>13,
     <1>14, <1>15, <1>16, <1>17
  DEF Next, MainThread, ZookeeperThread

\* The request of a command goes to the server whose address was read.
LEMMA RoutedNext == ASSUME IInv, Next PROVE RequestRouted'
<1> USE DEF IInv, TypeOK, RequestRouted
<1> SUFFICES ASSUME ~missed', mpc' = "receive" PROVE RequestRouted'
  OBVIOUS
<1>1. CASE Retry
  BY <1>1 DEF Retry
<1> SUFFICES ASSUME ~missed PROVE RequestRouted'
  BY <1>1, MissedNext
<1>2. CASE Send
  BY <1>2 DEF Send, SocketOf, SocketsConsistent
<1>3. CASE MainThread /\ ~Send
  BY <1>1, <1>3
  DEF MainThread, ZkConnect, Parse, NotRegistered, SetConnected, RegisterListener,
      GetAddress, FreeAddress, FreeAborts, Connect, ConnectFails, CloseSocket,
      Command, SendFails, Receive, Quit, ClearConnected, ZkClose, ZookeeperClose, Destroy,
      Returned
<1>4. CASE ZookeeperThread
  <2>1. CASE CallNull
    BY <2>1 DEF CallNull
  <2>2. CASE ~CallNull
    BY <1>4, <2>2 DEF ZookeeperThread, Notify, WatchAgain, CheckListener, CallListener,
                      CloseLoaded, Disconnected, LoadSocket
  <2> QED BY <2>1, <2>2
<1>5. CASE Environment
  <2>1. UNCHANGED <<mpc, command, address>>
    BY <1>5 DEF Environment, Register, Die, Expire, Promote, ChildrenBecome
  <2> QED BY <2>1
<1> QED
  BY <1>2, <1>3, <1>4, <1>5 DEF Next

\* Every step of the two threads keeps the invariant: one lemma above per step.
LEMMA InvariantNext == IInv /\ [Next]_vars => IInv'
<1> SUFFICES ASSUME IInv, [Next]_vars PROVE IInv'
  OBVIOUS
<1>1. CASE UNCHANGED vars
  BY <1>1 DEF vars, IInv, TypeOK, ThreadsConsistent, FlagsConsistent, ConnectPrepared,
              SocketsConsistent, AllOpen, IsOpen, ClosingConsistent, ReadConsistent,
              RequestRouted
<1>2. CASE Next
  <2>1. TypeOK'
    BY <1>2, TypesNext DEF IInv
  <2> QED
    BY <1>2, <2>1, ThreadsNext, FlagsNext, PreparedNext, SocketsNext, ClosingNext,
       ReadNext, RoutedNext
    DEF IInv
<1> QED BY <1>1, <1>2

\* An open socket is forgotten only where network_connect forgets it.
LEMMA ForgottenNext ==
  ASSUME IInv, Next, ~missed,
         NEW fd \in Fds, Held(fd), ~Held(fd)', IsOpen(fd)
  PROVE  mpc = "connect_backup"
<1> USE DEF IInv, TypeOK, Held
<1>1. ASSUME UNCHANGED sockfd PROVE FALSE
  BY <1>1
<1>2. PICK q \in Roles : sockfd[q] = fd
  OBVIOUS
<1>3. ~(mpc \in {"free_primary", "free_backup", "connect_primary"})
  <2>1. CASE mpc = "connect_primary"
    BY <1>2, <2>1, NoFdClosed DEF ConnectPrepared
  <2>2. CASE mpc \in {"free_primary", "free_backup"}
    BY <1>2, <2>2 DEF SocketsConsistent, FlagsConsistent, Connecting, Quitting
  <2> QED BY <2>1, <2>2
<1>4. CASE ZookeeperThread
  BY <1>1, <1>4 DEF ZookeeperThread, Notify, WatchAgain, CheckListener, CallListener,
                    CallNull, CloseLoaded, Disconnected, LoadSocket
<1>5. CASE Environment
  BY <1>1, <1>5 DEF Environment, Register, Die, Expire, Promote, ChildrenBecome
<1>6. CASE \E r \in Roles : FreeAddress(r) \/ Connect(r) \/ ConnectFails(r)
  BY <1>3, <1>6 DEF FreeAddress, Connect, ConnectFails
<1>7. CASE MainThread /\ ~\E r \in Roles : FreeAddress(r) \/ Connect(r) \/ ConnectFails(r)
  BY <1>1, <1>7
  DEF MainThread, ZkConnect, Parse, NotRegistered, SetConnected, RegisterListener,
      GetAddress, FreeAborts, CloseSocket, Retry, Command, Send, SendFails, Receive,
      Quit, ClearConnected, ZkClose, ZookeeperClose, Destroy
<1> QED BY <1>4, <1>5, <1>6, <1>7 DEF Next

-----------------------------------------------------------------------------
(* Theorems.                                                               *)

\* Every reachable state satisfies the inductive invariant: sockets, addresses and
\* flags agree at each step of the two threads (client_stub.c:31-166).
THEOREM InvariantHolds == Spec => []IInv
BY InvariantInit, InvariantNext, PTL DEF Spec

\* A client that believes to be connected has two open sockets that lead to the
\* servers whose addresses it read, unless a notification met it while it connected
\* (client_stub.c:31-88, network_client.c:13-35).
THEOREM ConnectionsSound == Spec => []ConnectionSound
<1>1. IInv => ConnectionSound
  BY DEF IInv, SocketsConsistent, AllOpen, ConnectionSound
<1> QED BY <1>1, InvariantHolds, PTL

\* A connected client that has out-of-date addresses is about to be told
\* (client_stub.c:90-100, zk-private.c:49-71).
THEOREM ChangesNoticed == Spec => []StaleNoticed
<1>1. IInv => StaleNoticed
  BY DEF IInv, ReadConsistent, StaleNoticed
<1> QED BY <1>1, InvariantHolds, PTL

\* Writes go to the server read as the primary, reads to that read as the backup
\* (network_client.c:44-66).
THEOREM RequestsRouted == Spec => []RequestRouted
<1>1. IInv => RequestRouted
  BY DEF IInv
<1> QED BY <1>1, InvariantHolds, PTL

\* The listener does not use an rtree that is freed (client_stub.c:102-108).
THEOREM RtreeOutlives == Spec => []RtreeAlive
<1>1. IInv => RtreeAlive
  BY DEF IInv, ThreadsConsistent, RtreeAlive, Listener
<1> QED BY <1>1, InvariantHolds, PTL

\* No open socket is forgotten, but that of a primary whose backup cannot be reached
\* (network_client.c:26-30).
THEOREM LeaksOnlyWithoutBackup == Spec => LeakOnlyWithoutBackup
<1>1. IInv /\ [Next]_vars =>
        [~missed =>
           \A fd \in Fds :
             Held(fd) /\ ~Held(fd)' /\ IsOpen(fd) /\ IsOpen(fd)' => mpc = "connect_backup"]_vars
  BY ForgottenNext DEF Held, IsOpen
<1> QED BY <1>1, InvariantHolds, PTL DEF Spec, LeakOnlyWithoutBackup
=============================================================================
