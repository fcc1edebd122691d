----------------------------- MODULE LibraryProofs -----------------------------
(***************************************************************************)
(* What holds of the objects of the library's classes, however many there  *)
(* are and in whatever order they are used, moved and destroyed: readers   *)
(* (CanReader), decoders (DecoderObjects), transformers                    *)
(* (TransformerObject).  TimeoutMonitor is proved about with the node.     *)
(***************************************************************************)
EXTENDS CanReader, DecoderObjects, TransformerObject, TLAPS

--------------------------------------------------------------------------------
(* CanReader: every socket has one owner through failed opens, moves and   *)
(* destructions; an open reader is ready; its error is the one its last    *)
(* read met; no reader touches a descriptor that is not its own; frames    *)
(* are returned as they were sent.                                         *)

(* The inductive invariant.                                                *)
ReaderIInv == ReaderTypeOK /\ ReaderInv

(* Sockets, free numbers and files of others are told apart.               *)
LEMMA SocketIsNot ==
  ASSUME NEW s \in Socket
  PROVE  s # Free /\ s # Foreign
<1>1. DOMAIN s = {"bound", "nonblocking"}
  BY DEF Socket
<1>2. DOMAIN Free = {"free"} /\ DOMAIN Foreign = {"foreign"}
  BY DEF Free, Foreign
<1> QED
  BY <1>1, <1>2

LEMMA SocketFields ==
  /\ \A b \in {NoName} \cup Present, n \in BOOLEAN :
        /\ SocketOn(b, n) \in Socket
        /\ SocketOn(b, n).bound = b /\ SocketOn(b, n).nonblocking = n
  /\ \A s \in Socket : s.bound \in {NoName} \cup Present /\ s.nonblocking \in BOOLEAN
BY DEF SocketOn, Socket

LEMMA NewSocketIsSocket == NewSocket \in Socket
BY DEF NewSocket, SocketOn, Socket

LEMMA ReaderInitInv == ReaderInit => ReaderIInv
<1> SUFFICES ASSUME ReaderInit PROVE ReaderIInv
  OBVIOUS
<1>1. ReaderTypeOK
  BY DEF ReaderInit, ReaderTypeOK
<1>2. \A r \in Reader : ~is_open(r) /\ pc[r] = "idle"
  BY DEF ReaderInit, is_open
<1>3. \A f \in Fd : ~IsSocket(f)
  <2>1. \A f \in Fd : kernel[f] = Free
    BY DEF ReaderInit
  <2> QED
    BY <2>1 DEF IsSocket
<1>4. OpeningInv /\ OpenIsReady /\ ErrorTruthful
  BY <1>2 DEF OpeningInv, OpenIsReady, ErrorTruthful
<1>5. OwnedOnce
  BY <1>2, <1>3 DEF OwnedOnce
<1> QED
  BY <1>1, <1>4, <1>5 DEF ReaderIInv, ReaderInv

(* The descriptor of an open reader is a socket.                           *)
LEMMA OpenOwns ==
  ASSUME ReaderIInv, NEW r \in Reader, is_open(r) \/ pc[r] \in {"bind", "fcntl"}
  PROVE  /\ fd_[r] \in Fd /\ fd_[r] >= 0 /\ r \in readers
         /\ kernel[fd_[r]] \in Socket
<1>1. is_open(r)
  BY DEF ReaderIInv, ReaderInv, OpeningInv
<1>2. fd_[r] \in Fd
  BY <1>1 DEF ReaderIInv, ReaderTypeOK, is_open
<1>3. r \in readers /\ IsSocket(fd_[r])
  BY <1>1 DEF ReaderIInv, ReaderInv, OwnedOnce
<1>4. kernel[fd_[r]] \in Socket \cup {Free, Foreign}
  BY <1>2 DEF ReaderIInv, ReaderTypeOK
<1> QED
  BY <1>1, <1>2, <1>3, <1>4 DEF is_open, IsSocket

(* Every step keeps the types.                                             *)
LEMMA ReaderNextType == ReaderIInv /\ [ReaderNext]_reader_vars => ReaderTypeOK'
<1> SUFFICES ASSUME ReaderIInv, [ReaderNext]_reader_vars PROVE ReaderTypeOK'
  OBVIOUS
<1> USE DEF ReaderIInv, ReaderTypeOK
<1>1. ASSUME NEW r \in Reader, ConstructReader(r) PROVE ReaderTypeOK'
  BY <1>1 DEF ConstructReader
<1>2. ASSUME NEW r \in Reader, DestroyReader(r) PROVE ReaderTypeOK'
  BY <1>2 DEF DestroyReader, KernelClose
<1>3. ASSUME NEW r \in Reader, close(r) PROVE ReaderTypeOK'
  BY <1>3 DEF close, KernelClose
<1>4. ASSUME NEW r \in Reader, clear_error(r) PROVE ReaderTypeOK'
  BY <1>4 DEF clear_error
<1>5. ASSUME NEW r \in Reader, read_frame(r) PROVE ReaderTypeOK'
  BY <1>5 DEF read_frame, ResetErrno
<1>6. ASSUME NEW r \in Reader, NEW name \in Name, open(r, name) PROVE ReaderTypeOK'
  BY <1>6 DEF open, KernelClose, ClearError
<1>7. ASSUME NEW r \in Reader, create_socket(r) PROVE ReaderTypeOK'
  <2>1. ASSUME NEW f \in Fd,
               fd_' = [fd_ EXCEPT ![r] = f],
               kernel' = [kernel EXCEPT ![f] = NewSocket],
               pc' = [pc EXCEPT ![r] = "bind"]
        PROVE  ReaderTypeOK'
    <3>1. kernel' \in [Fd -> Socket \cup {Free, Foreign}]
      BY <2>1, NewSocketIsSocket
    <3> QED
      BY <1>7, <2>1, <3>1 DEF create_socket
  <2>2. CASE pc' = [pc EXCEPT ![r] = "idle"] /\ UNCHANGED <<fd_, kernel>>
    BY <1>7, <2>2 DEF create_socket
  <2> QED
    BY <1>7, <2>1, <2>2 DEF create_socket
<1>8. ASSUME NEW r \in Reader, bind_socket(r) PROVE ReaderTypeOK'
  <2>1. fd_[r] \in Fd /\ kernel[fd_[r]] \in Socket
    BY <1>8, OpenOwns DEF bind_socket
  <2>2. IfName(requested[r]) \in Present =>
           SocketOn(IfName(requested[r]), kernel[fd_[r]].nonblocking) \in Socket
    BY <2>1, SocketFields
  <2>3. CASE Fail(r)
    BY <1>8, <2>1, <2>3 DEF bind_socket, Fail, KernelClose
  <2> QED
    BY <1>8, <2>1, <2>2, <2>3 DEF bind_socket
<1>9. ASSUME NEW r \in Reader, set_nonblocking(r) PROVE ReaderTypeOK'
  <2>1. fd_[r] \in Fd /\ kernel[fd_[r]] \in Socket /\ requested[r] \in Name
    BY <1>9, OpenOwns DEF set_nonblocking, ReaderInv, OpeningInv
  <2>2. SocketOn(kernel[fd_[r]].bound, TRUE) \in Socket
    BY <2>1, SocketFields
  <2>3. CASE Fail(r) /\ UNCHANGED interface_name_
    BY <1>9, <2>1, <2>3 DEF set_nonblocking, Fail, KernelClose
  <2>4. ASSUME kernel' = [kernel EXCEPT ![fd_[r]] = SocketOn(@.bound, TRUE)],
               interface_name_' = [interface_name_ EXCEPT ![r] = requested[r]],
               pc' = [pc EXCEPT ![r] = "idle"],
               UNCHANGED fd_
        PROVE  ReaderTypeOK'
    <3>1. kernel' \in [Fd -> Socket \cup {Free, Foreign}]
      BY <2>1, <2>2, <2>4
    <3> QED
      BY <1>9, <2>4, <3>1 DEF set_nonblocking
  <2> QED
    BY <1>9, <2>3, <2>4 DEF set_nonblocking, NonblockingOrFail
<1>10. ASSUME NEW r \in Reader, NEW src \in Reader, MoveConstructReader(r, src) PROVE ReaderTypeOK'
  BY <1>10 DEF MoveConstructReader, TakeReader, Release
<1>11. ASSUME NEW r \in Reader, NEW src \in Reader, MoveAssignReader(r, src) PROVE ReaderTypeOK'
  <2>1. CASE r # src
    BY <1>11, <2>1 DEF MoveAssignReader, TakeReader, Release, KernelClose
  <2>2. CASE r = src
    BY <1>11, <2>2 DEF MoveAssignReader
  <2> QED
    BY <2>1, <2>2
<1>12. ASSUME NEW f \in Fd, ForeignOpen(f) \/ ForeignClose(f) PROVE ReaderTypeOK'
  BY <1>12 DEF ForeignOpen, ForeignClose
<1>13. CASE UNCHANGED reader_vars
  BY <1>13 DEF reader_vars
<1> QED
  BY <1>1, <1>2, <1>3, <1>4, <1>5, <1>6, <1>7, <1>8, <1>9, <1>10, <1>11, <1>12, <1>13
     DEF ReaderNext, ReaderStep

(* What is a socket after a close was one before.                          *)
LEMMA CloseFrees ==
  ASSUME ReaderIInv, NEW r \in Reader, KernelClose(fd_[r])
  PROVE  \A f \in Fd : IsSocket(f)' => IsSocket(f) /\ f # fd_[r]
<1> SUFFICES ASSUME NEW f \in Fd, IsSocket(f)'
             PROVE  IsSocket(f) /\ f # fd_[r]
  OBVIOUS
<1> USE DEF ReaderIInv, ReaderTypeOK
<1>1. CASE f = fd_[r]
  <2>1. fd_[r] >= 0
    BY <1>1, ReaderAssumption DEF ReaderAssumption
  <2>2. kernel'[f] = Free
    BY <1>1, <2>1 DEF KernelClose
  <2> QED
    BY <2>2 DEF IsSocket
<1>2. CASE f # fd_[r]
  BY <1>2 DEF IsSocket, KernelClose
<1> QED
  BY <1>1, <1>2

(* Closing its own descriptor, a reader leaves every other socket with its *)
(* owner.                                                                  *)
LEMMA CloseKeepsOwners ==
  ASSUME ReaderIInv, NEW r \in Reader,
         KernelClose(fd_[r]), fd_' = [fd_ EXCEPT ![r] = -1],
         readers' = readers \/ readers' = readers \ {r}
  PROVE  /\ OwnedOnce'
         /\ ~is_open(r)'
         /\ \A q \in Reader : q # r =>
               /\ fd_'[q] = fd_[q]
               /\ is_open(q) => kernel'[fd_[q]] = kernel[fd_[q]]
<1> USE DEF ReaderIInv, ReaderTypeOK
<1>1. /\ fd_'[r] = -1 /\ ~is_open(r)'
      /\ \A q \in Reader : q # r => fd_'[q] = fd_[q] /\ (is_open(q)' <=> is_open(q))
  BY DEF is_open
<1>2. \A q \in Reader : q # r /\ is_open(q) => fd_[q] \in Fd /\ fd_[q] # fd_[r]
  BY OpenOwns DEF ReaderInv, OwnedOnce
<1>3. \A f \in Fd : f # fd_[r] => kernel'[f] = kernel[f]
  BY DEF KernelClose
<1>4. \A q \in Reader : q # r /\ is_open(q) => kernel'[fd_[q]] = kernel[fd_[q]]
  BY <1>2, <1>3
<1>5. \A f \in Fd : IsSocket(f)' => IsSocket(f) /\ f # fd_[r]
  BY CloseFrees
<1>6. \A f \in Fd : IsSocket(f)' => \E q \in readers' : fd_'[q] = f
  <2> SUFFICES ASSUME NEW f \in Fd, IsSocket(f)'
               PROVE  \E q \in readers' : fd_'[q] = f
    OBVIOUS
  <2>1. PICK q \in readers : fd_[q] = f
    BY <1>5 DEF ReaderInv, OwnedOnce
  <2> QED
    BY <1>1, <1>5, <2>1
<1>7. \A p, q \in Reader : is_open(p)' /\ fd_'[q] = fd_'[p] => q = p
  BY <1>1 DEF ReaderInv, OwnedOnce, is_open
<1>8. \A q \in Reader : is_open(q)' => q \in readers' /\ IsSocket(fd_[q])'
  <2> SUFFICES ASSUME NEW q \in Reader, is_open(q)'
               PROVE  q \in readers' /\ IsSocket(fd_[q])'
    OBVIOUS
  <2>1. q # r /\ is_open(q) /\ fd_'[q] = fd_[q]
    BY <1>1
  <2>2. q \in readers /\ IsSocket(fd_[q])
    BY <2>1 DEF ReaderInv, OwnedOnce
  <2> QED
    BY <1>4, <2>1, <2>2 DEF IsSocket
<1> QED
  BY <1>1, <1>4, <1>6, <1>7, <1>8 DEF OwnedOnce

(* The descriptors of open readers are sockets, one each.                  *)
LEMMA OpenFds ==
  ASSUME ReaderIInv, NEW q \in Reader, is_open(q)
  PROVE  /\ fd_[q] \in Fd /\ kernel[fd_[q]] \in Socket
         /\ kernel[fd_[q]] # Free /\ kernel[fd_[q]] # Foreign
         /\ \A r \in Reader : r # q => fd_[r] # fd_[q]
<1>1. fd_[q] \in Fd /\ kernel[fd_[q]] \in Socket
  BY OpenOwns
<1>2. \A r \in Reader : r # q => fd_[r] # fd_[q]
  BY DEF ReaderIInv, ReaderInv, OwnedOnce
<1> QED
  BY <1>1, <1>2, SocketIsNot

(* The sockets of the readers other than r are as they were.               *)
SocketsKept(r) ==
    \A q \in Reader : q # r /\ is_open(q) => kernel'[fd_[q]] = kernel[fd_[q]]

(* Setting something of its own socket, a reader changes no owner.         *)
LEMMA ConfigureKeepsOwners ==
  ASSUME ReaderIInv, NEW r \in Reader, is_open(r), NEW socket \in Socket,
         kernel' = [kernel EXCEPT ![fd_[r]] = socket],
         UNCHANGED <<fd_, readers>>
  PROVE  OwnedOnce' /\ SocketsKept(r)
<1>1. SocketsKept(r)
  BY OpenFds DEF SocketsKept, ReaderIInv, ReaderTypeOK
<1>2. \A f \in Fd : IsSocket(f)' <=> IsSocket(f)
  <2> SUFFICES ASSUME NEW f \in Fd PROVE IsSocket(f)' <=> IsSocket(f)
    OBVIOUS
  <2>1. CASE f = fd_[r]
    BY <2>1, OpenFds, SocketIsNot DEF IsSocket, ReaderIInv, ReaderTypeOK
  <2>2. CASE f # fd_[r]
    BY <2>2 DEF IsSocket, ReaderIInv, ReaderTypeOK
  <2> QED
    BY <2>1, <2>2
<1>3. \A q \in Reader : (is_open(q)' <=> is_open(q)) /\ (is_open(q) => fd_[q] \in Fd)
  BY OpenFds DEF is_open
<1> QED
  BY <1>1, <1>2, <1>3 DEF ReaderIInv, ReaderInv, OwnedOnce

(* Every step keeps the rest of the invariant.                             *)
LEMMA NextReaderInv == ReaderIInv /\ [ReaderNext]_reader_vars => ReaderInv'
<1> SUFFICES ASSUME ReaderIInv, [ReaderNext]_reader_vars PROVE ReaderInv'
  OBVIOUS
<1> USE DEF ReaderIInv, ReaderTypeOK, Idle
<1>1. ASSUME NEW r \in Reader, ConstructReader(r) PROVE ReaderInv'
  <2>1. OpeningInv'
    BY <1>1 DEF ReaderInv, ConstructReader, OpeningInv, OwnedOnce, is_open, has_error
  <2>2. OwnedOnce'
    BY <1>1 DEF ReaderInv, ConstructReader, OpeningInv, OwnedOnce, is_open, IsSocket
  <2>3. OpenIsReady'
    BY <1>1 DEF ReaderInv, ConstructReader, OpeningInv, OwnedOnce, OpenIsReady, is_open, IsSocket
  <2>4. ErrorTruthful'
    BY <1>1 DEF ReaderInv, ConstructReader, ErrorTruthful, OpeningInv, is_open, has_error
  <2> QED
    BY <2>1, <2>2, <2>3, <2>4 DEF ReaderInv
<1>2. ASSUME NEW r \in Reader, DestroyReader(r) PROVE ReaderInv'
  <2>1. OpeningInv'
    BY <1>2 DEF ReaderInv, DestroyReader, KernelClose, OpeningInv, OwnedOnce, is_open, has_error
  <2>2. OwnedOnce'
    BY <1>2, CloseKeepsOwners DEF DestroyReader
  <2>3. OpenIsReady'
    BY <1>2
       DEF ReaderInv, DestroyReader, KernelClose, OpeningInv, OwnedOnce, OpenIsReady, is_open, IsSocket
  <2>4. ErrorTruthful'
    BY <1>2 DEF ReaderInv, DestroyReader, KernelClose, ErrorTruthful, OpeningInv, is_open, has_error
  <2> QED
    BY <2>1, <2>2, <2>3, <2>4 DEF ReaderInv
<1>3. ASSUME NEW r \in Reader, close(r) PROVE ReaderInv'
  <2>1. OpeningInv'
    BY <1>3 DEF ReaderInv, close, KernelClose, OpeningInv, OwnedOnce, is_open, has_error
  <2>2. OwnedOnce'
    BY <1>3, CloseKeepsOwners DEF close
  <2>3. OpenIsReady'
    BY <1>3 DEF ReaderInv, close, KernelClose, OpeningInv, OwnedOnce, OpenIsReady, is_open, IsSocket
  <2>4. ErrorTruthful'
    BY <1>3 DEF ReaderInv, close, KernelClose, ErrorTruthful, OpeningInv, is_open, has_error
  <2> QED
    BY <2>1, <2>2, <2>3, <2>4 DEF ReaderInv
<1>4. ASSUME NEW r \in Reader, clear_error(r) PROVE ReaderInv'
  <2>1. OpeningInv'
    BY <1>4 DEF ReaderInv, clear_error, OpeningInv, OwnedOnce, is_open, has_error
  <2>2. OwnedOnce'
    BY <1>4 DEF ReaderInv, clear_error, OpeningInv, OwnedOnce, is_open, IsSocket
  <2>3. OpenIsReady'
    BY <1>4 DEF ReaderInv, clear_error, OpeningInv, OwnedOnce, OpenIsReady, is_open, IsSocket
  <2>4. ErrorTruthful'
    BY <1>4 DEF ReaderInv, clear_error, ErrorTruthful, OpeningInv, is_open, has_error
  <2> QED
    BY <2>1, <2>2, <2>3, <2>4 DEF ReaderInv
<1>5. ASSUME NEW r \in Reader, read_frame(r) PROVE ReaderInv'
  <2>1. OpeningInv'
    BY <1>5 DEF ReaderInv, read_frame, ResetErrno, OpeningInv, OwnedOnce, is_open, has_error
  <2>2. OwnedOnce'
    BY <1>5 DEF ReaderInv, read_frame, ResetErrno, OpeningInv, OwnedOnce, is_open, IsSocket
  <2>3. OpenIsReady'
    BY <1>5
       DEF ReaderInv, read_frame, ResetErrno, OpeningInv, OwnedOnce, OpenIsReady, is_open, IsSocket
  <2>4. ErrorTruthful'
    BY <1>5 DEF ReaderInv, read_frame, ResetErrno, ErrorTruthful, OpeningInv, is_open, has_error
  <2> QED
    BY <2>1, <2>2, <2>3, <2>4 DEF ReaderInv
<1>6. ASSUME NEW r \in Reader, NEW name \in Name, open(r, name) PROVE ReaderInv'
  <2>1. OpeningInv'
    BY <1>6 DEF ReaderInv, open, KernelClose, ClearError, OpeningInv, OwnedOnce, is_open, has_error
  <2>2. OwnedOnce'
    BY <1>6, CloseKeepsOwners DEF open
  <2>3. OpenIsReady'
    BY <1>6
       DEF ReaderInv, open, KernelClose, ClearError, OpeningInv, OwnedOnce, OpenIsReady, is_open, IsSocket
  <2>4. ErrorTruthful'
    BY <1>6
       DEF ReaderInv, open, KernelClose, ClearError, ErrorTruthful, OpeningInv, is_open, has_error
  <2> QED
    BY <2>1, <2>2, <2>3, <2>4 DEF ReaderInv
<1>7. ASSUME NEW r \in Reader, create_socket(r) PROVE ReaderInv'
  <2>1. CASE pc' = [pc EXCEPT ![r] = "idle"] /\ UNCHANGED <<fd_, kernel>>
    BY <1>7, <2>1 DEF create_socket, ReaderInv, OpeningInv, OwnedOnce, OpenIsReady,
       ErrorTruthful, is_open, has_error, IsSocket
  <2>2. ASSUME NEW f \in Fd,
               LowestFree(f),
               fd_' = [fd_ EXCEPT ![r] = f],
               kernel' = [kernel EXCEPT ![f] = NewSocket],
               pc' = [pc EXCEPT ![r] = "bind"]
        PROVE  ReaderInv'
    <3>1. \A q \in Reader : q # r =>
             fd_'[q] = fd_[q] /\ pc'[q] = pc[q] /\ (is_open(q)' <=> is_open(q))
      BY <2>2 DEF is_open
    <3>2. \A q \in Reader : is_open(q) => fd_[q] \in Fd /\ fd_[q] # f
      BY <2>2, OpenFds DEF LowestFree
    <3>3. \A q \in Reader : q # r /\ is_open(q) => kernel'[fd_[q]] = kernel[fd_[q]]
      BY <2>2, <3>2
    <3>4. fd_'[r] = f /\ kernel'[f] = NewSocket /\ pc'[r] = "bind" /\ is_open(r)'
      BY <2>2, ReaderAssumption DEF ReaderAssumption, is_open
    <3>5. ~is_open(r) /\ pc[r] = "socket" /\ r \in readers /\ readers' = readers
      BY <1>7 DEF create_socket, ReaderInv, OpeningInv
    <3>6. OpeningInv'
      BY <1>7, <3>1, <3>2, <3>3, <3>4, <3>5 DEF create_socket, ReaderInv, OpeningInv, has_error
    <3>7. NewSocket # Free /\ NewSocket # Foreign
      BY NewSocketIsSocket, SocketIsNot
    <3>8. OwnedOnce'
      <4>1. \A g \in Fd : IsSocket(g)' => \E q \in readers' : fd_'[q] = g
        <5> SUFFICES ASSUME NEW g \in Fd, IsSocket(g)'
                     PROVE  \E q \in readers' : fd_'[q] = g
          OBVIOUS
        <5>1. CASE g = f
          BY <3>4, <3>5, <5>1
        <5>2. CASE g # f
          <6>1. IsSocket(g)
            BY <2>2, <5>2 DEF IsSocket
          <6>2. PICK q \in readers : fd_[q] = g
            BY <6>1 DEF ReaderInv, OwnedOnce
          <6>3. q # r
            BY <3>5, <6>2, ReaderAssumption DEF ReaderAssumption, is_open
          <6> QED
            BY <3>1, <3>5, <6>2, <6>3
        <5> QED
          BY <5>1, <5>2
      <4>2. \A p, q \in Reader : is_open(p)' /\ fd_'[q] = fd_'[p] => q = p
        <5> SUFFICES ASSUME NEW p \in Reader, NEW q \in Reader,
                            is_open(p)', fd_'[q] = fd_'[p], q # p
                     PROVE  FALSE
          OBVIOUS
        <5>1. is_open(q)'
          BY DEF is_open
        <5> QED
          BY <3>1, <3>2, <3>4, <5>1 DEF ReaderInv, OwnedOnce
      <4>3. \A q \in Reader : is_open(q)' => q \in readers' /\ IsSocket(fd_[q])'
        BY <3>1, <3>3, <3>4, <3>5, <3>7 DEF ReaderInv, OwnedOnce, IsSocket
      <4> QED
        BY <4>1, <4>2, <4>3 DEF OwnedOnce
    <3>9. OpenIsReady'
      BY <1>7, <3>1, <3>3, <3>4 DEF create_socket, ReaderInv, OpenIsReady
    <3>10. ErrorTruthful'
      BY <1>7, <3>1, <3>5 DEF create_socket, ReaderInv, ErrorTruthful, OpeningInv, has_error
    <3> QED
      BY <3>6, <3>8, <3>9, <3>10 DEF ReaderInv
  <2> QED
    BY <1>7, <2>1, <2>2 DEF create_socket
<1>8. ASSUME NEW r \in Reader, bind_socket(r) PROVE ReaderInv'
  <2>1. /\ is_open(r) /\ fd_[r] \in Fd /\ r \in readers
        /\ kernel[fd_[r]] \in Socket
        /\ \A q \in Reader : is_open(q) /\ q # r => fd_[q] \in Fd /\ fd_[q] # fd_[r]
    BY <1>8, OpenOwns, OpenFds DEF bind_socket, ReaderInv, OpeningInv
  <2>2. CASE Fail(r)
    <3>1. /\ OwnedOnce' /\ ~is_open(r)' /\ pc'[r] = "idle" /\ readers' = readers
          /\ \A q \in Reader : q # r =>
                /\ fd_'[q] = fd_[q] /\ pc'[q] = pc[q]
                /\ is_open(q) => kernel'[fd_[q]] = kernel[fd_[q]]
      <4>1. /\ KernelClose(fd_[r]) /\ fd_' = [fd_ EXCEPT ![r] = -1]
            /\ pc' = [pc EXCEPT ![r] = "idle"] /\ readers' = readers
        BY <1>8, <2>2 DEF Fail, bind_socket
      <4>2. /\ OwnedOnce' /\ ~is_open(r)'
            /\ \A q \in Reader : q # r =>
                  /\ fd_'[q] = fd_[q]
                  /\ is_open(q) => kernel'[fd_[q]] = kernel[fd_[q]]
        BY <4>1, CloseKeepsOwners
      <4> QED
        BY <4>1, <4>2
    <3>2. OpeningInv'
      BY <1>8, <2>1, <3>1 DEF bind_socket, ReaderInv, OpeningInv, has_error, is_open
    <3>3. OpenIsReady'
      BY <1>8, <2>2, <3>1 DEF bind_socket, ReaderInv, OpenIsReady, is_open
    <3>4. ErrorTruthful'
      BY <1>8, <3>1 DEF bind_socket, ReaderInv, ErrorTruthful, has_error, is_open
    <3> QED
      BY <3>1, <3>2, <3>3, <3>4 DEF ReaderInv
  <2>3. ASSUME IfName(requested[r]) \in Present,
               kernel' = [kernel EXCEPT
                   ![fd_[r]] = SocketOn(IfName(requested[r]), @.nonblocking)],
               pc' = [pc EXCEPT ![r] = "fcntl"],
               UNCHANGED fd_
        PROVE  ReaderInv'
    <3> DEFINE socket == SocketOn(IfName(requested[r]), kernel[fd_[r]].nonblocking)
    <3>1. /\ socket \in Socket /\ socket.bound = IfName(requested[r])
          /\ kernel' = [kernel EXCEPT ![fd_[r]] = socket]
      BY <2>1, <2>3, SocketFields
    <3> HIDE DEF socket
    <3>2. OwnedOnce' /\ SocketsKept(r)
      BY <1>8, <2>1, <2>3, <3>1, ConfigureKeepsOwners DEF bind_socket
    <3>3. kernel'[fd_[r]].bound = IfName(requested[r])
      BY <2>1, <3>1
    <3>4. OpeningInv'
      BY <1>8, <2>1, <2>3, <3>2, <3>3
         DEF bind_socket, ReaderInv, OpeningInv, is_open, has_error, SocketsKept
    <3>5. OpenIsReady'
      BY <1>8, <2>1, <2>3, <3>2 DEF bind_socket, ReaderInv, OpenIsReady, is_open, SocketsKept
    <3>6. ErrorTruthful'
      BY <1>8, <2>3 DEF bind_socket, ReaderInv, ErrorTruthful, is_open, has_error
    <3> QED
      BY <3>2, <3>4, <3>5, <3>6 DEF ReaderInv
  <2> QED
    BY <1>8, <2>2, <2>3 DEF bind_socket
<1>9. ASSUME NEW r \in Reader, set_nonblocking(r) PROVE ReaderInv'
  <2>1. /\ is_open(r) /\ fd_[r] \in Fd /\ r \in readers
        /\ kernel[fd_[r]] \in Socket
        /\ \A q \in Reader : is_open(q) /\ q # r => fd_[q] \in Fd /\ fd_[q] # fd_[r]
    BY <1>9, OpenOwns, OpenFds DEF set_nonblocking, ReaderInv, OpeningInv
  <2>2. CASE Fail(r) /\ UNCHANGED interface_name_
    <3>1. /\ OwnedOnce' /\ ~is_open(r)' /\ pc'[r] = "idle" /\ readers' = readers
          /\ \A q \in Reader : q # r =>
                /\ fd_'[q] = fd_[q] /\ pc'[q] = pc[q]
                /\ is_open(q) => kernel'[fd_[q]] = kernel[fd_[q]]
      <4>1. /\ KernelClose(fd_[r]) /\ fd_' = [fd_ EXCEPT ![r] = -1]
            /\ pc' = [pc EXCEPT ![r] = "idle"] /\ readers' = readers
        BY <1>9, <2>2 DEF Fail, set_nonblocking
      <4>2. /\ OwnedOnce' /\ ~is_open(r)'
            /\ \A q \in Reader : q # r =>
                  /\ fd_'[q] = fd_[q]
                  /\ is_open(q) => kernel'[fd_[q]] = kernel[fd_[q]]
        BY <4>1, CloseKeepsOwners
      <4> QED
        BY <4>1, <4>2
    <3>2. OpeningInv'
      BY <1>9, <2>1, <3>1 DEF set_nonblocking, ReaderInv, OpeningInv, has_error, is_open
    <3>3. OpenIsReady'
      BY <1>9, <2>2, <3>1 DEF set_nonblocking, ReaderInv, OpenIsReady, is_open
    <3>4. ErrorTruthful'
      BY <1>9, <3>1 DEF set_nonblocking, ReaderInv, ErrorTruthful, has_error, is_open
    <3> QED
      BY <3>1, <3>2, <3>3, <3>4 DEF ReaderInv
  <2>3. ASSUME kernel' = [kernel EXCEPT ![fd_[r]] = SocketOn(@.bound, TRUE)],
               interface_name_' = [interface_name_ EXCEPT ![r] = requested[r]],
               pc' = [pc EXCEPT ![r] = "idle"],
               UNCHANGED fd_
        PROVE  ReaderInv'
    <3> DEFINE socket == SocketOn(kernel[fd_[r]].bound, TRUE)
    <3>1. /\ socket \in Socket /\ socket.bound = kernel[fd_[r]].bound /\ socket.nonblocking
          /\ kernel' = [kernel EXCEPT ![fd_[r]] = socket]
      BY <2>1, <2>3, SocketFields
    <3> HIDE DEF socket
    <3>2. OwnedOnce' /\ SocketsKept(r)
      BY <1>9, <2>1, <2>3, <3>1, ConfigureKeepsOwners DEF set_nonblocking
    <3>3. /\ kernel'[fd_[r]].nonblocking
          /\ kernel'[fd_[r]].bound = IfName(requested[r])
          /\ interface_name_'[r] = requested[r]
      BY <1>9, <2>1, <2>3, <3>1 DEF set_nonblocking, ReaderInv, OpeningInv
    <3>4. OpeningInv'
      BY <1>9, <2>1, <2>3, <3>2
         DEF set_nonblocking, ReaderInv, OpeningInv, is_open, has_error, SocketsKept
    <3>5. OpenIsReady'
      BY <1>9, <2>1, <2>3, <3>2, <3>3
         DEF set_nonblocking, ReaderInv, OpenIsReady, is_open, SocketsKept
    <3>6. ErrorTruthful'
      BY <1>9, <2>1, <2>3
         DEF set_nonblocking, ReaderInv, ErrorTruthful, OpeningInv, is_open, has_error
    <3> QED
      BY <3>2, <3>4, <3>5, <3>6 DEF ReaderInv
  <2> QED
    BY <1>9, <2>2, <2>3 DEF set_nonblocking, NonblockingOrFail
<1>10. ASSUME NEW r \in Reader, NEW src \in Reader, MoveConstructReader(r, src) PROVE ReaderInv'
  <2>1. OpeningInv'
    BY <1>10
       DEF ReaderInv, MoveConstructReader, TakeReader, Release, OpeningInv, OwnedOnce, is_open, has_error
  <2>2. OwnedOnce'
    BY <1>10
       DEF ReaderInv, MoveConstructReader, TakeReader, Release, OpeningInv, OwnedOnce, is_open, IsSocket
  <2>3. OpenIsReady'
    BY <1>10
       DEF ReaderInv, MoveConstructReader, TakeReader, Release, OpeningInv, OwnedOnce, OpenIsReady, is_open, IsSocket
  <2>4. ErrorTruthful'
    BY <1>10
       DEF ReaderInv, MoveConstructReader, TakeReader, Release, ErrorTruthful, OpeningInv, is_open, has_error
  <2> QED
    BY <2>1, <2>2, <2>3, <2>4 DEF ReaderInv
<1>11. ASSUME NEW r \in Reader, NEW src \in Reader, MoveAssignReader(r, src) PROVE ReaderInv'
  <2>1. OpeningInv'
    BY <1>11
       DEF ReaderInv, MoveAssignReader, TakeReader, Release, KernelClose, OpeningInv, OwnedOnce, is_open, has_error
  <2>2. OwnedOnce'
    <3>1. CASE r = src
      BY <1>11, <3>1 DEF MoveAssignReader, ReaderInv, OwnedOnce, is_open, IsSocket
    <3>2. CASE r # src
      <4>1. /\ readers' = readers /\ r \in readers /\ KernelClose(fd_[r])
            /\ fd_'[r] = fd_[src] /\ fd_'[src] = -1
            /\ \A q \in Reader : q # r /\ q # src => fd_'[q] = fd_[q]
        BY <1>11, <3>2 DEF MoveAssignReader, TakeReader, Release
      <4>2. \A f \in Fd : IsSocket(f)' => \E q \in readers' : fd_'[q] = f
        <5> SUFFICES ASSUME NEW f \in Fd, IsSocket(f)'
                     PROVE  \E q \in readers' : fd_'[q] = f
          OBVIOUS
        <5>1. IsSocket(f) /\ f # fd_[r]
          BY <4>1, CloseFrees
        <5>2. PICK q \in readers : fd_[q] = f
          BY <5>1 DEF ReaderInv, OwnedOnce
        <5> QED
          BY <4>1, <5>1, <5>2
      <4>3. \A p, q \in Reader : is_open(p)' /\ fd_'[q] = fd_'[p] => q = p
        BY <3>2, <4>1 DEF ReaderInv, OwnedOnce, is_open
      <4>4. \A q \in Reader : is_open(q)' => q \in readers' /\ IsSocket(fd_[q])'
        <5> SUFFICES ASSUME NEW q \in Reader, is_open(q)'
                     PROVE  q \in readers' /\ IsSocket(fd_[q])'
          OBVIOUS
        <5> DEFINE p == IF q = r THEN src ELSE q
        <5>1. p \in Reader /\ p # r /\ is_open(p) /\ fd_'[q] = fd_[p] /\ q # src
          BY <3>2, <4>1 DEF is_open
        <5> HIDE DEF p
        <5>2. /\ fd_[p] \in Fd /\ fd_[p] # fd_[r] /\ p \in readers
              /\ kernel[fd_[p]] # Free /\ kernel[fd_[p]] # Foreign
          BY <5>1, OpenFds DEF ReaderInv, OwnedOnce
        <5>3. kernel'[fd_[p]] = kernel[fd_[p]]
          BY <4>1, <5>2 DEF KernelClose
        <5>4. q \in readers
          BY <1>11, <4>1, <5>1 DEF is_open, ReaderInv, OwnedOnce
        <5> QED
          BY <4>1, <5>1, <5>2, <5>3, <5>4 DEF IsSocket
      <4> QED
        BY <4>2, <4>3, <4>4 DEF OwnedOnce
    <3> QED
      BY <3>1, <3>2
  <2>3. OpenIsReady'
    BY <1>11
       DEF ReaderInv, MoveAssignReader, TakeReader, Release, KernelClose, OpeningInv, OwnedOnce, OpenIsReady, is_open, IsSocket
  <2>4. ErrorTruthful'
    BY <1>11
       DEF ReaderInv, MoveAssignReader, TakeReader, Release, KernelClose, ErrorTruthful, OpeningInv, is_open, has_error
  <2> QED
    BY <2>1, <2>2, <2>3, <2>4 DEF ReaderInv
<1>12. ASSUME NEW f \in Fd, ForeignOpen(f) \/ ForeignClose(f) PROVE ReaderInv'
  <2>1. \A q \in Reader : is_open(q) => fd_[q] \in Fd /\ fd_[q] # f
    BY <1>12, OpenFds DEF ForeignOpen, ForeignClose, LowestFree
  <2>2. /\ \A q \in Reader : is_open(q) => kernel'[fd_[q]] = kernel[fd_[q]]
        /\ UNCHANGED <<readers, fd_, last_errno_, interface_name_, pc, requested, last_read>>
    BY <1>12, <2>1 DEF ForeignOpen, ForeignClose
  <2>3. \A g \in Fd : IsSocket(g)' => IsSocket(g)
    BY <1>12 DEF ForeignOpen, ForeignClose, IsSocket
  <2>4. OwnedOnce'
    BY <2>1, <2>2, <2>3 DEF ReaderInv, OwnedOnce, is_open, IsSocket
  <2>5. OpeningInv'
    BY <2>2 DEF ReaderInv, OpeningInv, is_open, has_error
  <2>6. OpenIsReady' /\ ErrorTruthful'
    BY <2>2 DEF ReaderInv, OpenIsReady, ErrorTruthful, is_open, has_error
  <2> QED
    BY <2>4, <2>5, <2>6 DEF ReaderInv
<1>13. CASE UNCHANGED reader_vars
  BY <1>13 DEF reader_vars, ReaderInv, OpeningInv, OwnedOnce, OpenIsReady, ErrorTruthful, is_open,
     has_error, IsSocket
<1> QED
  BY <1>1, <1>2, <1>3, <1>4, <1>5, <1>6, <1>7, <1>8, <1>9, <1>10, <1>11, <1>12, <1>13
     DEF ReaderNext, ReaderStep

(* Every reachable state has the inductive invariant.                      *)
LEMMA ReaderInvariance == ReaderSpec => []ReaderIInv
<1>1. ReaderIInv /\ [ReaderNext]_reader_vars => ReaderIInv'
  BY ReaderNextType, NextReaderInv DEF ReaderIInv
<1> QED
  BY <1>1, ReaderInitInv, PTL DEF ReaderSpec

(* Descriptors, errors and names stay in their ranges, and an interface    *)
(* name in use is one somebody asked for.                                  *)
THEOREM ReaderTypeCorrect == ReaderSpec => []ReaderTypeOK
<1>1. ReaderIInv => ReaderTypeOK
  BY DEF ReaderIInv
<1> QED
  BY <1>1, ReaderInvariance, PTL

(* No socket is leaked or closed twice, and no reader keeps a number that  *)
(* has come to mean something else: through opens that fail at any call,   *)
(* moves, closes and destructions, in any order, while other threads take  *)
(* the numbers that become free.                                           *)
THEOREM SocketsOwnedOnce == ReaderSpec => []OwnedOnce
<1>1. ReaderIInv => OwnedOnce
  BY DEF ReaderIInv, ReaderInv
<1> QED
  BY <1>1, ReaderInvariance, PTL

(* An open reader never blocks, and reads the interface it names.          *)
THEOREM OpenReadersReady == ReaderSpec => []OpenIsReady
<1>1. ReaderIInv => OpenIsReady
  BY DEF ReaderIInv, ReaderInv
<1> QED
  BY <1>1, ReaderInvariance, PTL

(* The error of an open reader is the one its last read met.               *)
THEOREM ErrorsTruthful == ReaderSpec => []ErrorTruthful
<1>1. ReaderIInv => ErrorTruthful
  BY DEF ReaderIInv, ReaderInv
<1> QED
  BY <1>1, ReaderInvariance, PTL

(* No operation of a reader changes a descriptor of another reader or of   *)
(* the rest of the process.                                                *)
THEOREM OtherDescriptorsUntouched == ReaderSpec => OthersUntouched
<1> DEFINE Mine(r) ==
             ReaderStep(r) =>
                 \A f \in Fd : kernel'[f] # kernel[f] =>
                     \/ kernel[f] = Free
                     \/ IsSocket(f) /\ \A q \in Reader : fd_[q] = f <=> q = r
<1>1. ASSUME ReaderIInv, NEW r \in Reader, NEW f \in Fd,
             KernelClose(fd_[r]), kernel'[f] # kernel[f]
      PROVE  IsSocket(f) /\ \A q \in Reader : fd_[q] = f <=> q = r
  <2>1. f = fd_[r] /\ fd_[r] >= 0
    BY <1>1 DEF KernelClose, ReaderIInv, ReaderTypeOK
  <2> QED
    BY <1>1, <2>1, OpenFds DEF IsSocket, is_open
<1>2. ASSUME ReaderIInv, NEW r \in Reader, NEW f \in Fd, kernel'[f] # kernel[f],
             pc[r] \in {"bind", "fcntl"}, \A g \in Fd : g # fd_[r] => kernel'[g] = kernel[g]
      PROVE  IsSocket(f) /\ \A q \in Reader : fd_[q] = f <=> q = r
  <2>1. is_open(r)
    BY <1>2 DEF ReaderIInv, ReaderInv, OpeningInv
  <2> QED
    BY <1>2, <2>1, OpenFds DEF IsSocket
<1>3. ReaderIInv => \A r \in Reader : Mine(r)
  <2> SUFFICES ASSUME ReaderIInv, NEW r \in Reader, ReaderStep(r),
                      NEW f \in Fd, kernel'[f] # kernel[f]
               PROVE  \/ kernel[f] = Free
                      \/ IsSocket(f) /\ \A q \in Reader : fd_[q] = f <=> q = r
    OBVIOUS
  <2>1. CASE KernelClose(fd_[r])
    BY <1>1, <2>1
  <2>2. CASE create_socket(r)
    BY <2>2 DEF create_socket, LowestFree, ReaderIInv, ReaderTypeOK
  <2>3. CASE bind_socket(r)
    <3>1. pc[r] \in {"bind", "fcntl"} /\ \A g \in Fd : g # fd_[r] => kernel'[g] = kernel[g]
      BY <2>3 DEF bind_socket, Fail, KernelClose, ReaderIInv, ReaderTypeOK
    <3> QED
      BY <1>2, <3>1
  <2>4. CASE set_nonblocking(r)
    <3>1. pc[r] \in {"bind", "fcntl"} /\ \A g \in Fd : g # fd_[r] => kernel'[g] = kernel[g]
      BY <2>4 DEF set_nonblocking, NonblockingOrFail, Fail, KernelClose, ReaderIInv, ReaderTypeOK
    <3> QED
      BY <1>2, <3>1
  <2>5. CASE UNCHANGED kernel
    BY <2>5
  <2> QED
    BY <2>1, <2>2, <2>3, <2>4, <2>5
       DEF ReaderStep, ConstructReader, DestroyReader, close, clear_error, read_frame, open,
           MoveConstructReader, MoveAssignReader
<1>4. ReaderIInv /\ [ReaderNext]_reader_vars => [\A r \in Reader : Mine(r)]_reader_vars
  BY <1>3
<1> QED
  BY <1>4, ReaderInvariance, PTL DEF ReaderSpec, OthersUntouched

--------------------------------------------------------------------------------
(* Frames.                                                                 *)

(* Quotient and remainder are what they are made of.                       *)
LEMMA DivMod ==
  ASSUME NEW n \in Nat \ {0}, NEW q \in Nat, NEW r \in Nat, r < n
  PROVE  (q * n + r) % n = r /\ (q * n + r) \div n = q
<1> DEFINE a == q * n + r
<1>1. a \in Nat
  OBVIOUS
<1>2. a = n * (a \div n) + (a % n) /\ a % n \in 0 .. n - 1 /\ a \div n \in Int
  BY <1>1
<1> DEFINE p == a \div n
           s == a % n
<1>3. p \in Int /\ s \in Int /\ 0 <= s /\ s < n /\ n * p + s = q * n + r
  BY <1>2
<1> HIDE DEF p, s, a
<1>4. ~ (p < q)
  <2> SUFFICES ASSUME p < q PROVE FALSE
    OBVIOUS
  <2>1. PICK d \in Nat : q = p + d + 1
    <3>1. q - p - 1 \in Nat /\ q = p + (q - p - 1) + 1
      BY <1>3
    <3> QED
      BY <3>1
  <2>2. q * n = p * n + d * n + n
    BY <1>3, <2>1
  <2>3. d * n >= 0
    OBVIOUS
  <2> QED
    BY <1>3, <2>2, <2>3
<1>5. ~ (q < p)
  <2> SUFFICES ASSUME q < p PROVE FALSE
    OBVIOUS
  <2>1. PICK d \in Nat : p = q + d + 1
    <3>1. p - q - 1 \in Nat /\ p = q + (p - q - 1) + 1
      BY <1>3
    <3> QED
      BY <3>1
  <2>2. p * n = q * n + d * n + n
    BY <1>3, <2>1
  <2>3. d * n >= 0
    OBVIOUS
  <2> QED
    BY <1>3, <2>2, <2>3
<1>6. p = q
  BY <1>3, <1>4, <1>5
<1>7. s = r
  BY <1>3, <1>6
<1> QED
  BY <1>6, <1>7 DEF p, s, a

(* The flags do not overlap the id, nor one another: the extended flag is  *)
(* seen, and the mask of the format leaves the id.                         *)
LEMMA IdOfRaw ==
  ASSUME NEW sent \in Sent
  PROVE  FrameId(RawFrame(sent).can_id) = sent.id
<1> DEFINE remote == IF sent.remote THEN 1 ELSE 0
           extended == IF sent.extended THEN 1 ELSE 0
           can_id == RawFrame(sent).can_id
           low == remote * (2 * EffIds) + sent.id
<1>1. PICK m \in 1 .. EffIds : EffIds = m * SffIds
  BY ReaderAssumption DEF ReaderAssumption
<1>2. SffIds \in Nat \ {0} /\ EffIds \in Nat \ {0} /\ m \in Nat \ {0} /\ SffIds <= EffIds
  <2>1. SffIds \in Nat \ {0} /\ EffIds \in Nat \ {0} /\ m \in Nat \ {0}
    BY <1>1, ReaderAssumption DEF ReaderAssumption
  <2>2. EffIds = SffIds + (m - 1) * SffIds /\ (m - 1) * SffIds >= 0
    BY <1>1, <2>1
  <2> QED
    BY <2>1, <2>2
<1>3. /\ sent.id \in Nat /\ sent.id < EffIds
      /\ ~ sent.extended => sent.id < SffIds
      /\ sent.extended \in BOOLEAN /\ sent.remote \in BOOLEAN
  BY <1>2, ReaderAssumption DEF ReaderAssumption
<1>4. remote \in {0, 1} /\ extended \in {0, 1}
  OBVIOUS
<1>5. can_id = sent.id + remote * (2 * EffIds) + extended * (4 * EffIds)
  BY <1>2, <1>3 DEF RawFrame
<1>6. low \in Nat /\ low < 4 * EffIds
  BY <1>2, <1>3, <1>4
<1>7. 4 * EffIds \in Nat \ {0} /\ can_id = extended * (4 * EffIds) + low
  BY <1>2, <1>3, <1>4, <1>5
<1> HIDE DEF remote, can_id, low
<1>8. can_id \div (4 * EffIds) = extended
  BY <1>4, <1>6, <1>7, DivMod
<1>9. IsExtended(can_id) <=> sent.extended
  <2>1. extended = 0 \/ extended = 1
    BY <1>4
  <2>2. 0 % 2 = 0 /\ 1 % 2 = 1
    OBVIOUS
  <2> QED
    BY <1>3, <1>8, <2>1, <2>2 DEF IsExtended
<1>10. CASE sent.extended
  <2>1. can_id = (4 + 2 * remote) * EffIds + sent.id /\ 4 + 2 * remote \in Nat
    BY <1>2, <1>3, <1>4, <1>5, <1>10
  <2>2. can_id % EffIds = sent.id
    BY <1>2, <1>3, <2>1, DivMod
  <2> QED
    BY <1>9, <1>10, <2>2 DEF FrameId, can_id
<1>11. CASE ~ sent.extended
  <2>1. can_id = (2 * remote * m) * SffIds + sent.id /\ 2 * remote * m \in Nat
    BY <1>1, <1>2, <1>3, <1>4, <1>5, <1>11
  <2>2. can_id % SffIds = sent.id
    BY <1>2, <1>3, <1>11, <2>1, DivMod
  <2> QED
    BY <1>9, <1>11, <2>2 DEF FrameId, can_id
<1> QED
  BY <1>3, <1>10, <1>11

(* What read_frame can return is sane.                                     *)
LEMMA ResultsSane ==
  /\ SaneResult(NoFrame)
  /\ \A e : SaneResult(Error(e))
  /\ \A sent \in Sent : SaneResult(ToFrame(RawFrame(sent)))
<1>1. SaneResult(NoFrame) /\ \A e : SaneResult(Error(e))
  BY DEF SaneResult, NoFrame, Error
<1>2. ASSUME NEW sent \in Sent
      PROVE  SaneResult(ToFrame(RawFrame(sent)))
  <2> DEFINE f == ToFrame(RawFrame(sent))
  <2>1. f.id = sent.id
    BY IdOfRaw DEF ToFrame
  <2>2. f.dlc = sent.dlc
    BY DEF ToFrame, RawFrame
  <2>3. \A k \in 1 .. NBytes : f.data[k] = IF k <= sent.dlc THEN sent.data[k] ELSE 0
    BY DEF ToFrame, RawFrame, Payload
  <2> QED
    BY <2>1, <2>2, <2>3 DEF SaneResult
<1> QED
  BY <1>1, <1>2

(* A reader returns a frame as it was sent, whatever its format: its id    *)
(* without the flags, and zeros beyond the dlc; and moves do not change    *)
(* what was returned (read_frame of can_reader.cpp).                       *)
THEOREM FramesSane == ReaderSpec => []FrameSane
<1>1. ReaderInit => FrameSane
  BY ResultsSane DEF ReaderInit, FrameSane
<1>2. FrameSane /\ ReaderTypeOK /\ [ReaderNext]_reader_vars => FrameSane'
  <2> SUFFICES ASSUME FrameSane, ReaderTypeOK, [ReaderNext]_reader_vars
               PROVE  FrameSane'
    OBVIOUS
  <2> SUFFICES \A r \in Reader : SaneResult(last_read'[r])
    BY DEF FrameSane, SaneResult
  <2>0. /\ DOMAIN last_read = Reader
        /\ \A r \in Reader : SaneResult(last_read[r])
        /\ SaneResult(NoFrame)
    BY ResultsSane DEF FrameSane, ReaderTypeOK
  <2>1. CASE UNCHANGED last_read
    BY <2>0, <2>1
  <2>2. ASSUME NEW r \in Reader, NEW f, SaneResult(f), last_read' = [last_read EXCEPT ![r] = f]
        PROVE  \A q \in Reader : SaneResult(last_read'[q])
    BY <2>0, <2>2
  <2>3. ASSUME NEW r \in Reader, ConstructReader(r)
        PROVE  \A q \in Reader : SaneResult(last_read'[q])
    BY <2>0, <2>2, <2>3 DEF ConstructReader
  <2>4. ASSUME NEW r \in Reader, NEW name \in Name, open(r, name)
        PROVE  \A q \in Reader : SaneResult(last_read'[q])
    BY <2>0, <2>2, <2>4 DEF open
  <2>5. ASSUME NEW r \in Reader, read_frame(r)
        PROVE  \A q \in Reader : SaneResult(last_read'[q])
    BY <2>2, <2>5, ResultsSane DEF read_frame
  <2>6. ASSUME NEW dst \in Reader, NEW src \in Reader, TakeReader(dst, src)
        PROVE  \A q \in Reader : SaneResult(last_read'[q])
    BY <2>0, <2>6 DEF TakeReader
  <2> QED
    BY <2>1, <2>3, <2>4, <2>5, <2>6
       DEF ReaderNext, ReaderStep, DestroyReader, close, clear_error, create_socket,
           bind_socket, set_nonblocking, MoveConstructReader, MoveAssignReader,
           ForeignOpen, ForeignClose, reader_vars
<1> QED
  BY <1>1, <1>2, ReaderTypeCorrect, PTL DEF ReaderSpec

--------------------------------------------------------------------------------
(* DbcDecoder: no decoder follows a pointer into a network that is gone,   *)
(* and each knows what its last load read.                                 *)

(* An implementation is told from none by its fields.                      *)
LEMMA ImplIsNot ==
  ASSUME NEW network, NEW msg_map, NEW points_into
  PROVE  [network |-> network, msg_map |-> msg_map, points_into |-> points_into] # NoImpl
<1>1. "network" \in
        DOMAIN [network |-> network, msg_map |-> msg_map, points_into |-> points_into]
  OBVIOUS
<1>2. "network" \notin DOMAIN NoImpl
  BY DEF NoImpl
<1> QED
  BY <1>1, <1>2

(* No object exists before the first construction.                         *)
LEMMA DecoderInitInv == DecoderInit => DecoderTypeOK /\ NoDangling
BY ObjectsAssumption DEF DecoderInit, DecoderTypeOK, NoDangling

(* What an action does to the implementations keeps them well typed.       *)
LEMMA DecoderStepType ==
  ASSUME DecoderTypeOK, [DecoderNext]_decoder_vars
  PROVE  DecoderTypeOK'
<1> USE DEF DecoderTypeOK
<1>1. ASSUME NEW o \in Decoder, ConstructDecoder(o)
      PROVE  DecoderTypeOK'
  <2>1. NewImpl.network = 0 /\ NewImpl.points_into = 0
    BY DEF NewImpl, NoNetwork
  <2> QED
    BY <1>1, <2>1 DEF ConstructDecoder
<1>2. ASSUME NEW o \in Decoder, DestroyDecoder(o)
      PROVE  DecoderTypeOK'
  BY <1>2 DEF DestroyDecoder
<1>3. ASSUME NEW o \in Decoder, load_fails(o)
      PROVE  DecoderTypeOK'
  BY <1>3 DEF load_fails, NotLoaded
<1>4. ASSUME NEW o \in Decoder, load_parses_nothing(o)
      PROVE  DecoderTypeOK'
  <2>1. /\ impl_'[o].network = NoNetwork
        /\ impl_'[o].points_into = impl_[o].points_into
        /\ o \in decoders
        /\ \A q \in Decoder \ {o} : impl_'[q] = impl_[q]
        /\ DOMAIN impl_' = Decoder
    BY <1>4 DEF load_parses_nothing
  <2>2. impl_[o] # NoImpl
    BY <1>4 DEF load_parses_nothing
  <2>3. NoNetwork \in 0 .. networks
    BY DEF NoNetwork
  <2> QED
    BY <1>4, <2>1, <2>2, <2>3 DEF load_parses_nothing, NotLoaded
<1>5. ASSUME NEW o \in Decoder, NEW f \in File, load(o, f)
      PROVE  DecoderTypeOK'
  <2>1. /\ impl_'[o].network = networks'
        /\ impl_'[o].points_into = networks'
        /\ \A q \in Decoder \ {o} : impl_'[q] = impl_[q]
        /\ DOMAIN impl_' = Decoder
    BY <1>5 DEF load
  <2>2. networks' \in 0 .. MaxLoads /\ networks' = networks + 1
    BY <1>5, ObjectsAssumption DEF load
  <2> QED
    BY <1>5, <2>1, <2>2 DEF load
<1>6. ASSUME NEW dst \in Decoder, NEW src \in Decoder,
             MoveConstructDecoder(dst, src) \/ MoveAssignDecoder(dst, src)
      PROVE  DecoderTypeOK'
  BY <1>6 DEF MoveConstructDecoder, MoveAssignDecoder, TakeDecoder, MoveLoaded
<1>7. CASE UNCHANGED decoder_vars
  BY <1>7 DEF decoder_vars
<1> QED
  BY <1>1, <1>2, <1>3, <1>4, <1>5, <1>6, <1>7 DEF DecoderNext

(* A loaded object stays complete: every action that takes the network or  *)
(* the implementation from it also says that it is not loaded.             *)
LEMMA DecoderStepInv ==
  ASSUME DecoderTypeOK, NoDangling, [DecoderNext]_decoder_vars
  PROVE  NoDangling'
<1> USE DEF DecoderTypeOK, NoDangling
<1>1. ASSUME NEW o \in Decoder, ConstructDecoder(o)
      PROVE  NoDangling'
  BY <1>1 DEF ConstructDecoder
<1>2. ASSUME NEW o \in Decoder, DestroyDecoder(o)
      PROVE  NoDangling'
  BY <1>2 DEF DestroyDecoder
<1>3. ASSUME NEW o \in Decoder, load_fails(o)
      PROVE  NoDangling'
  BY <1>3 DEF load_fails, NotLoaded
<1>4. ASSUME NEW o \in Decoder, load_parses_nothing(o)
      PROVE  NoDangling'
  BY <1>4 DEF load_parses_nothing, NotLoaded
<1>5. ASSUME NEW o \in Decoder, NEW f \in File, load(o, f)
      PROVE  NoDangling'
  <2>1. /\ impl_'[o] # NoImpl
        /\ impl_'[o].network = networks'
        /\ impl_'[o].points_into = networks'
    BY <1>5, ImplIsNot DEF load
  <2>2. networks' # NoNetwork
    BY <1>5 DEF load, NoNetwork
  <2>3. /\ decoders' = decoders
        /\ \A q \in Decoder \ {o} : impl_'[q] = impl_[q] /\ loaded_'[q] = loaded_[q]
    BY <1>5 DEF load
  <2> QED
    BY <2>1, <2>2, <2>3
<1>6. ASSUME NEW dst \in Decoder, NEW src \in Decoder,
             MoveConstructDecoder(dst, src) \/ MoveAssignDecoder(dst, src)
      PROVE  NoDangling'
  <2>1. /\ dst # src /\ src \in decoders
        /\ decoders' = decoders \cup {dst}
    BY <1>6 DEF MoveConstructDecoder, MoveAssignDecoder
  <2>2. /\ impl_' = [impl_ EXCEPT ![dst] = impl_[src], ![src] = NoImpl]
        /\ loaded_' = [loaded_ EXCEPT ![dst] = loaded_[src], ![src] = FALSE]
    BY <1>6 DEF MoveConstructDecoder, MoveAssignDecoder, TakeDecoder, MoveLoaded
  <2>3. /\ impl_'[dst] = impl_[src]
        /\ \A q \in Decoder \ {dst, src} : impl_'[q] = impl_[q]
    BY <2>1, <2>2
  <2>4. /\ loaded_'[dst] = loaded_[src]
        /\ loaded_'[src] = FALSE
        /\ \A q \in Decoder \ {dst, src} : loaded_'[q] = loaded_[q]
    BY <2>1, <2>2, Zenon
  <2> SUFFICES ASSUME NEW q \in decoders', loaded_'[q]
               PROVE  /\ impl_'[q] # NoImpl
                      /\ impl_'[q].network # NoNetwork
                      /\ impl_'[q].points_into = impl_'[q].network
    OBVIOUS
  <2>5. CASE q = dst
    BY <2>1, <2>3, <2>4, <2>5
  <2>6. CASE q = src
    BY <2>4, <2>6
  <2>7. CASE q \notin {dst, src}
    BY <2>1, <2>3, <2>4, <2>7
  <2> QED
    BY <2>5, <2>6, <2>7
<1>7. CASE UNCHANGED decoder_vars
  BY <1>7 DEF decoder_vars
<1> QED
  BY <1>1, <1>2, <1>3, <1>4, <1>5, <1>6, <1>7 DEF DecoderNext

(* Types and completeness together hold in every behaviour.                *)
LEMMA DecoderInvariance == DecoderSpec => [](DecoderTypeOK /\ NoDangling)
<1>1. DecoderTypeOK /\ NoDangling /\ [DecoderNext]_decoder_vars => (DecoderTypeOK /\ NoDangling)'
  BY DecoderStepType, DecoderStepInv
<1> QED
  BY DecoderInitInv, <1>1, PTL DEF DecoderSpec

(* Only objects that are decoders hold an implementation, whose networks were *)
(* made by a load (DecoderTypeOK of the decoder objects).                         *)
THEOREM DecoderTypeCorrect == DecoderSpec => []DecoderTypeOK
BY DecoderInvariance, PTL

(* Whatever is loaded, fails to load or is moved: an object that answers   *)
(* queries has its implementation, its network, and a map into that one    *)
(* (loaded_ of dbc_decoder.cpp).                                           *)
THEOREM DecodersNeverDangle == DecoderSpec => []NoDangling
BY DecoderInvariance, PTL

(* A file that was loaded is told from none.                               *)
LEMMA FileIsNot ==
  ASSUME NEW file
  PROVE  [messages |-> file] # NoFile
<1>1. "messages" \in DOMAIN [messages |-> file] /\ "messages" \notin DOMAIN NoFile
  BY DEF NoFile
<1> QED
  BY <1>1

(* build_map has the ids of the messages, and of duplicates the first      *)
(* (emplace of dbc_decoder.cpp).                                           *)
LEMMA MapOfFile ==
  ASSUME NEW file \in File
  PROVE  /\ DOMAIN build_map(file) = {file[k].id : k \in DOMAIN file}
         /\ \A k \in DOMAIN file :
               (\A j \in 1 .. k - 1 : file[j].id # file[k].id) =>
                   build_map(file)[file[k].id] = file[k].signals
<1>1. DOMAIN build_map(file) = {file[k].id : k \in DOMAIN file}
  BY DEF build_map
<1>2. file \in Seq(Range(file))
  BY ObjectsAssumption DEF ObjectsAssumption
<1>3. Len(file) \in Nat /\ DOMAIN file = 1 .. Len(file)
  BY <1>2
<1> SUFFICES ASSUME NEW k \in DOMAIN file, \A j \in 1 .. k - 1 : file[j].id # file[k].id
             PROVE  build_map(file)[file[k].id] = file[k].signals
  BY <1>1
<1> DEFINE id == file[k].id
           places == {i \in DOMAIN file : file[i].id = id}
<1>4. k \in places /\ places \subseteq Nat
  BY <1>3
<1>5. \A i \in places : k <= i
  BY <1>3
<1>6. \A i \in places : (\A j \in places : i <= j) => i = k
  BY <1>4, <1>5
<1>7. Min(places) = k
  <2> HIDE DEF places
  <2>1. Min(places) = CHOOSE i \in places : \A j \in places : i <= j
    BY DEF Min
  <2> QED
    BY <1>4, <1>5, <1>6, <2>1
<1>8. id \in {file[i].id : i \in DOMAIN file}
  OBVIOUS
<1> QED
  BY <1>7, <1>8 DEF build_map

(* Every step keeps the maps those of the last loads.                      *)
LEMMA DecoderStepLoad ==
  ASSUME DecoderTypeOK, LoadInv, [DecoderNext]_decoder_vars
  PROVE  LoadInv'
<1> USE DEF DecoderTypeOK, LoadInv
<1>1. ASSUME NEW o \in Decoder, ConstructDecoder(o)
      PROVE  LoadInv'
  BY <1>1 DEF ConstructDecoder
<1>2. ASSUME NEW o \in Decoder, DestroyDecoder(o)
      PROVE  LoadInv'
  BY <1>2 DEF DestroyDecoder
<1>3. ASSUME NEW o \in Decoder, load_fails(o)
      PROVE  LoadInv'
  BY <1>3 DEF load_fails, NotLoaded
<1>4. ASSUME NEW o \in Decoder, load_parses_nothing(o)
      PROVE  LoadInv'
  <2>1. \A q \in Decoder \ {o} : impl_'[q] = impl_[q]
    BY <1>4 DEF load_parses_nothing
  <2> QED
    BY <1>4, <2>1 DEF load_parses_nothing, NotLoaded
<1>5. ASSUME NEW o \in Decoder, NEW f \in File, load(o, f)
      PROVE  LoadInv'
  <2>1. impl_'[o].msg_map = build_map(f) /\ loads'[o] = [messages |-> f]
    BY <1>5 DEF load, Rebuilt
  <2>2. MadeFrom(loads'[o], impl_'[o].msg_map)
    BY <2>1 DEF MadeFrom
  <2>3. /\ decoders' = decoders /\ loaded_'[o] = TRUE
        /\ \A q \in Decoder \ {o} : /\ impl_'[q] = impl_[q]
                                   /\ loaded_'[q] = loaded_[q]
                                   /\ loads'[q] = loads[q]
    BY <1>5 DEF load
  <2> QED
    BY <2>2, <2>3
<1>6. ASSUME NEW dst \in Decoder, NEW src \in Decoder,
             MoveConstructDecoder(dst, src) \/ MoveAssignDecoder(dst, src)
      PROVE  LoadInv'
  <2>1. dst # src /\ src \in decoders /\ decoders' = decoders \cup {dst}
    BY <1>6 DEF MoveConstructDecoder, MoveAssignDecoder
  <2>2. /\ impl_' = [impl_ EXCEPT ![dst] = impl_[src], ![src] = NoImpl]
        /\ loads' = [loads EXCEPT ![dst] = loads[src], ![src] = NoFile]
        /\ loaded_' = [loaded_ EXCEPT ![dst] = loaded_[src], ![src] = FALSE]
    BY <1>6 DEF MoveConstructDecoder, MoveAssignDecoder, TakeDecoder, MoveLoaded
  <2>3. /\ impl_'[dst] = impl_[src] /\ loads'[dst] = loads[src] /\ loads'[src] = NoFile
        /\ \A q \in Decoder \ {dst, src} : impl_'[q] = impl_[q] /\ loads'[q] = loads[q]
    BY <2>1, <2>2
  <2>4. /\ loaded_'[dst] = loaded_[src] /\ loaded_'[src] = FALSE
        /\ \A q \in Decoder \ {dst, src} : loaded_'[q] = loaded_[q]
    BY <2>1, <2>2, Zenon
  <2> QED
    BY <2>1, <2>3, <2>4
<1>7. CASE UNCHANGED decoder_vars
  BY <1>7 DEF decoder_vars
<1> QED
  BY <1>1, <1>2, <1>3, <1>4, <1>5, <1>6, <1>7 DEF DecoderNext

(* A loaded object answers from the map of the file it last read, any      *)
(* other from none.                                                        *)
LEMMA MapsDecode ==
  ASSUME LoadInv
  PROVE  DecodesLastLoad
<1> SUFFICES ASSUME NEW o \in decoders
             PROVE  Knows(o, IF loads[o] = NoFile THEN <<>> ELSE loads[o].messages)
  BY DEF DecodesLastLoad
<1>1. CASE loaded_[o]
  <2>1. PICK file \in File : /\ loads[o] = [messages |-> file]
                             /\ impl_[o].msg_map = build_map(file)
    BY <1>1 DEF LoadInv, MadeFrom
  <2>2. (IF loads[o] = NoFile THEN <<>> ELSE loads[o].messages) = file
    BY <2>1, FileIsNot
  <2>3. Knows(o, file)
    BY <1>1, <2>1, MapOfFile DEF known_ids, Knows
  <2> QED
    BY <2>2, <2>3
<1>2. CASE ~ loaded_[o]
  <2>1. (IF loads[o] = NoFile THEN <<>> ELSE loads[o].messages) = <<>>
    BY <1>2 DEF LoadInv
  <2>2. Knows(o, <<>>)
    BY <1>2 DEF known_ids, Knows
  <2> QED
    BY <2>1, <2>2
<1> QED
  BY <1>1, <1>2

(* However an object was loaded, failed to load or was moved: it knows the *)
(* messages of the file its last load read, of duplicates the first, and   *)
(* of no other (load, decode, known_ids of dbc_decoder.cpp).               *)
THEOREM LastLoadDecodes == DecoderSpec => []DecodesLastLoad
<1>1. DecoderInit => LoadInv
  BY DEF DecoderInit, LoadInv
<1>2. LoadInv /\ DecoderTypeOK /\ [DecoderNext]_decoder_vars => LoadInv'
  BY DecoderStepLoad
<1>3. LoadInv => DecodesLastLoad
  BY MapsDecode
<1> QED
  BY <1>1, <1>2, <1>3, DecoderTypeCorrect, PTL DEF DecoderSpec

--------------------------------------------------------------------------------
(* SignalTransformer: what configure leaves and transform returns.         *)

(* Every entry is one that configure has come to, compiled.                *)
EntriesOwn(o) ==
    \A s \in DOMAIN exprs[o] :
        /\ s \in DOMAIN configs[o]
        /\ s \notin pending[o]
        /\ exprs[o][s].expression = configs[o][s].expression
        /\ exprs[o][s].unit = configs[o][s].unit
        /\ exprs[o][s].expression # NoExpression
        /\ Compiles(exprs[o][s].expression)

(* Until configure throws, what it has come to is there; when it throws,   *)
(* the argument has an expression that does not compile.                   *)
Progress(o) ==
    /\ ~ thrown[o] =>
          \A s \in DOMAIN configs[o] :
              s \notin pending[o] /\ configs[o][s].expression # NoExpression => s \in DOMAIN exprs[o]
    /\ thrown[o] =>
          \E s \in DOMAIN configs[o] :
              configs[o][s].expression # NoExpression /\ ~ Compiles(configs[o][s].expression)

(* A call in evaluation has its own raw value in the variable, and no      *)
(* other call is at the same one.                                          *)
CallOwn(t) ==
    /\ pending[call[t].object] = {}
    /\ exprs[call[t].object][call[t].signal_name].x = call[t].raw_value
    /\ \A u \in Thread \ {t} :
          call[u].at = "evaluating" =>
              call[u].object # call[t].object \/ call[u].signal_name # call[t].signal_name

(* Between the steps of configure and of transform, ConfiguredOnly and     *)
(* what ReturnsOwn needs hold in this form.                                *)
TransformerIInv ==
    /\ TransformerTypeOK
    /\ \A o \in Transformer : pending[o] # {} => o \in held
    /\ \A o \in held : EntriesOwn(o) /\ Progress(o)
    /\ \A t \in Thread : call[t].at = "evaluating" => CallOwn(t)

(* Nothing is held before the first construction.                          *)
LEMMA TransformerInitInv == TransformerInit => TransformerIInv
BY DEF TransformerInit, TransformerIInv, TransformerTypeOK, NoCall

(* A construction starts with an empty map for an empty configuration.     *)
LEMMA ConstructInv ==
  ASSUME TransformerIInv, NEW o \in Transformer, ConstructTransformer(o)
  PROVE  TransformerIInv'
<1> USE DEF TransformerIInv, TransformerTypeOK
<1>1. /\ exprs'[o] = <<>> /\ configs'[o] = <<>> /\ thrown'[o] = FALSE
      /\ pending' = pending /\ call' = call /\ pending[o] = {}
      /\ \A q \in Transformer \ {o} : /\ exprs'[q] = exprs[q] /\ configs'[q] = configs[q]
                                      /\ thrown'[q] = thrown[q]
  BY DEF ConstructTransformer
<1>2. o \notin held /\ held' = held \cup {o}
  BY DEF ConstructTransformer
<1>3. \A t \in Thread : call[t].at = "evaluating" => call[t].object \in held
  OBVIOUS
<1>4. TransformerTypeOK'
  BY <1>1, <1>2, <1>3 DEF ConstructTransformer
<1>5. \A q \in held' : EntriesOwn(q)'
  BY <1>1, <1>2 DEF EntriesOwn
<1>6. \A q \in held' : Progress(q)'
  BY <1>1, <1>2 DEF Progress
<1>7. \A t \in Thread : call'[t].at = "evaluating" => CallOwn(t)'
  BY <1>1, <1>2, <1>3 DEF CallOwn
<1> QED
  BY <1>1, <1>2, <1>4, <1>5, <1>6, <1>7

(* An object is destroyed between the calls to it.                         *)
LEMMA DestroyInv ==
  ASSUME TransformerIInv, NEW o \in Transformer, DestroyTransformer(o)
  PROVE  TransformerIInv'
<1> USE DEF TransformerIInv, TransformerTypeOK
<1>1. /\ held' = held \ {o} /\ Unused(o)
      /\ UNCHANGED <<exprs, configs, pending, thrown, call>>
  BY DEF DestroyTransformer
<1>2. TransformerTypeOK'
  BY <1>1 DEF Unused
<1>3. \A q \in held' : EntriesOwn(q)' /\ Progress(q)'
  BY <1>1 DEF EntriesOwn, Progress
<1>4. \A t \in Thread : call'[t].at = "evaluating" => CallOwn(t)'
  BY <1>1 DEF CallOwn
<1> QED
  BY <1>1, <1>2, <1>3, <1>4 DEF Unused

(* A move takes the map together with what it was configured with.         *)
LEMMA MoveInv ==
  ASSUME TransformerIInv, NEW dst \in Transformer, NEW src \in Transformer, MoveTransformer(dst, src)
  PROVE  TransformerIInv'
<1> USE DEF TransformerIInv, TransformerTypeOK
<1>1. /\ dst # src /\ src \in held /\ Unused(dst) /\ Unused(src)
      /\ held' = (held \ {src}) \cup {dst}
      /\ pending' = pending /\ call' = call
  BY DEF MoveTransformer
<1>2. /\ exprs'[dst] = exprs[src] /\ configs'[dst] = configs[src] /\ thrown'[dst] = thrown[src]
      /\ \A q \in Transformer \ {dst} : /\ exprs'[q] = exprs[q] /\ configs'[q] = configs[q]
                                        /\ thrown'[q] = thrown[q]
  BY DEF MoveTransformer
<1>3. pending[dst] = {} /\ pending[src] = {}
  BY <1>1 DEF Unused
<1>4. \A t \in Thread : call[t].at = "evaluating" =>
          /\ call[t].object \in held
          /\ call[t].object # dst /\ call[t].object # src
  BY <1>1 DEF Unused
<1>5. TransformerTypeOK'
  BY <1>1, <1>2, <1>3, <1>4 DEF MoveTransformer
<1>6. \A q \in held' : EntriesOwn(q)'
  BY <1>1, <1>2, <1>3 DEF EntriesOwn
<1>7. \A q \in held' : Progress(q)'
  BY <1>1, <1>2, <1>3 DEF Progress
<1>8. \A t \in Thread : call'[t].at = "evaluating" => CallOwn(t)'
  BY <1>1, <1>2, <1>4 DEF CallOwn
<1> QED
  BY <1>1, <1>3, <1>5, <1>6, <1>7, <1>8

(* configure starts with nothing compiled and everything to come.          *)
LEMMA ConfigureInv ==
  ASSUME TransformerIInv, NEW o \in Transformer, NEW new \in Configs, configure(o, new)
  PROVE  TransformerIInv'
<1> USE DEF TransformerIInv, TransformerTypeOK
<1>1. /\ o \in held /\ Unused(o)
      /\ held' = held /\ call' = call
  BY DEF configure
<1>2. /\ exprs'[o] = <<>> /\ configs'[o] = new /\ thrown'[o] = FALSE /\ pending'[o] = DOMAIN new
      /\ \A q \in Transformer \ {o} : /\ exprs'[q] = exprs[q] /\ configs'[q] = configs[q]
                                      /\ thrown'[q] = thrown[q] /\ pending'[q] = pending[q]
  BY DEF configure, Clear
<1>3. \A t \in Thread : call[t].at = "evaluating" =>
          call[t].object \in held /\ call[t].object # o
  BY <1>1 DEF Unused
<1>4. TransformerTypeOK'
  BY <1>1, <1>2, <1>3 DEF configure
<1>5. \A q \in held' : EntriesOwn(q)'
  BY <1>1, <1>2 DEF EntriesOwn
<1>6. \A q \in held' : Progress(q)'
  BY <1>1, <1>2 DEF Progress
<1>7. \A t \in Thread : call'[t].at = "evaluating" => CallOwn(t)'
  BY <1>1, <1>2, <1>3 DEF CallOwn
<1> QED
  BY <1>1, <1>2, <1>4, <1>5, <1>6, <1>7

(* An entry of the argument is compiled, passed over, or ends configure.   *)
LEMMA CompileInv ==
  ASSUME TransformerIInv, NEW o \in Transformer, NEW s \in SignalName, compile(o, s)
  PROVE  TransformerIInv'
<1> USE DEF TransformerIInv, TransformerTypeOK
<1> DEFINE cfg == configs[o][s]
<1>1. /\ s \in pending[o] /\ o \in held /\ s \in DOMAIN configs[o] /\ thrown[o] = FALSE
      /\ held' = held /\ call' = call /\ configs' = configs
  BY DEF compile
<1>2. /\ \A q \in Transformer \ {o} : /\ exprs'[q] = exprs[q] /\ thrown'[q] = thrown[q]
                                      /\ pending'[q] = pending[q]
      /\ DOMAIN exprs' = Transformer /\ DOMAIN pending' = Transformer
      /\ thrown' \in [Transformer -> BOOLEAN]
  BY DEF compile, Insert
<1>3. \A t \in Thread : call[t].at = "evaluating" =>
          /\ call[t].object \in held /\ call[t].object # o
          /\ call[t].object \in Transformer
  BY <1>1 DEF CallOwn
<1>4. \/ /\ cfg.expression # NoExpression /\ Compiles(cfg.expression)
         /\ exprs'[o] = Emplace(exprs[o], s, Compiled(cfg))
         /\ pending'[o] = pending[o] \ {s} /\ thrown'[o] = FALSE
      \/ /\ cfg.expression # NoExpression /\ ~ Compiles(cfg.expression)
         /\ exprs'[o] = exprs[o] /\ pending'[o] = {} /\ thrown'[o] = TRUE
      \/ /\ cfg.expression = NoExpression
         /\ exprs'[o] = exprs[o] /\ pending'[o] = pending[o] \ {s} /\ thrown'[o] = FALSE
  BY <1>1 DEF compile, Insert
<1>5. s \notin DOMAIN exprs[o]
  BY <1>1 DEF EntriesOwn
<1>6. /\ DOMAIN Emplace(exprs[o], s, Compiled(cfg)) = DOMAIN exprs[o] \cup {s}
      /\ Emplace(exprs[o], s, Compiled(cfg))[s].expression = cfg.expression
      /\ Emplace(exprs[o], s, Compiled(cfg))[s].unit = cfg.unit
      /\ \A x \in DOMAIN exprs[o] : Emplace(exprs[o], s, Compiled(cfg))[x] = exprs[o][x]
  BY <1>5 DEF Emplace, Compiled
<1>7. TransformerTypeOK'
  BY <1>1, <1>2, <1>3, <1>4 DEF compile
<1>8. \A q \in held' : EntriesOwn(q)'
  <2>1. EntriesOwn(o)'
    BY <1>1, <1>4, <1>6 DEF EntriesOwn
  <2> QED
    BY <2>1, <1>1, <1>2 DEF EntriesOwn
<1>9. \A q \in held' : Progress(q)'
  <2>1. Progress(o)'
    BY <1>1, <1>4, <1>6 DEF Progress
  <2> QED
    BY <2>1, <1>1, <1>2 DEF Progress
<1>10. \A t \in Thread : call'[t].at = "evaluating" => CallOwn(t)'
  BY <1>1, <1>2, <1>3 DEF CallOwn
<1> QED
  BY <1>1, <1>2, <1>4, <1>7, <1>8, <1>9, <1>10

(* A transform that begins takes the variable of its own signal alone.     *)
LEMMA BeginInv ==
  ASSUME TransformerIInv, NEW t \in Thread, NEW o \in Transformer, NEW s \in SignalName, NEW raw \in Raw,
         transform_begins(t, o, s, raw)
  PROVE  TransformerIInv'
<1> USE DEF TransformerIInv, TransformerTypeOK
<1>1. /\ o \in held /\ CallsApart(o, s) /\ call[t].at # "evaluating"
      /\ held' = held /\ configs' = configs /\ pending' = pending /\ thrown' = thrown
      /\ \A u \in Thread \ {t} : call'[u] = call[u]
      /\ DOMAIN call' = Thread
  BY DEF transform_begins
<1>2. pending[o] = {}
  BY <1>1 DEF CallsApart
<1>3. CASE s \notin DOMAIN exprs[o]
  <2>1. exprs' = exprs /\ call'[t].at = "returned"
    BY <1>3 DEF transform_begins, Returned
  <2>2. TransformerTypeOK'
    BY <1>1, <2>1
  <2>3. \A q \in held' : EntriesOwn(q)' /\ Progress(q)'
    BY <1>1, <2>1 DEF EntriesOwn, Progress
  <2>4. \A u \in Thread : call'[u].at = "evaluating" => CallOwn(u)'
    BY <1>1, <2>1 DEF CallOwn
  <2> QED
    BY <1>1, <2>2, <2>3, <2>4
<1>4. CASE s \in DOMAIN exprs[o]
  <2>1. /\ call'[t].at = "evaluating" /\ call'[t].object = o
        /\ call'[t].signal_name = s /\ call'[t].raw_value = raw
    BY <1>4 DEF transform_begins
  <2>2. /\ exprs'[o] = SetX(exprs[o], s, raw)
        /\ \A q \in Transformer \ {o} : exprs'[q] = exprs[q]
        /\ DOMAIN exprs' = Transformer
    BY <1>4 DEF transform_begins
  <2>3. /\ DOMAIN exprs'[o] = DOMAIN exprs[o]
        /\ exprs'[o][s] = WithX(exprs[o][s], raw)
        /\ \A x \in DOMAIN exprs[o] \ {s} : exprs'[o][x] = exprs[o][x]
    BY <1>4, <2>2 DEF SetX
  <2>4. /\ exprs'[o][s].expression = exprs[o][s].expression
        /\ exprs'[o][s].unit = exprs[o][s].unit
        /\ exprs'[o][s].x = raw
    BY <2>3 DEF WithX
  <2>5. \A u \in Thread \ {t} : call[u].at = "evaluating" =>
            call[u].object # o \/ call[u].signal_name # s
    BY <1>1 DEF CallsApart
  <2>6. TransformerTypeOK'
    BY <1>1, <1>4, <2>1, <2>2, <2>3
  <2>7. \A q \in held' : EntriesOwn(q)'
    BY <1>1, <2>2, <2>3, <2>4 DEF EntriesOwn
  <2>8. \A q \in held' : Progress(q)'
    BY <1>1, <2>2, <2>3 DEF Progress
  <2>9. CallOwn(t)'
    BY <1>1, <1>2, <2>1, <2>4, <2>5 DEF CallOwn
  <2>10. \A u \in Thread \ {t} : call'[u].at = "evaluating" => CallOwn(u)'
    BY <1>1, <2>1, <2>2, <2>3, <2>5 DEF CallOwn
  <2> QED
    BY <1>1, <2>6, <2>7, <2>8, <2>9, <2>10
<1> QED
  BY <1>3, <1>4

(* A transform that is over changes its call only.                         *)
LEMMA EndInv ==
  ASSUME TransformerIInv, NEW t \in Thread, transform_returns(t) \/ transform_throws(t)
  PROVE  TransformerIInv'
<1> USE DEF TransformerIInv, TransformerTypeOK
<1>1. /\ UNCHANGED <<held, exprs, configs, pending, thrown>>
      /\ \A u \in Thread \ {t} : call'[u] = call[u]
      /\ DOMAIN call' = Thread
  BY DEF transform_returns, transform_throws
<1>2. call'[t].at # "evaluating"
  BY DEF transform_returns, transform_throws, Returned, NoCall
<1>3. TransformerTypeOK'
  BY <1>1, <1>2
<1>4. \A q \in held' : EntriesOwn(q)' /\ Progress(q)'
  BY <1>1 DEF EntriesOwn, Progress
<1>5. \A u \in Thread : call'[u].at = "evaluating" => CallOwn(u)'
  BY <1>1, <1>2 DEF CallOwn
<1> QED
  BY <1>1, <1>3, <1>4, <1>5

(* Every action keeps the invariant.                                       *)
LEMMA TransformerStepInv ==
  ASSUME TransformerIInv, [TransformerNext]_transformer_vars
  PROVE  TransformerIInv'
<1>1. CASE UNCHANGED transformer_vars
  BY <1>1 DEF transformer_vars, TransformerIInv, TransformerTypeOK, EntriesOwn, Progress, CallOwn
<1> QED
  BY <1>1, ConstructInv, DestroyInv, MoveInv, ConfigureInv, CompileInv, BeginInv, EndInv DEF TransformerNext

(* The invariant holds in every behaviour.                                 *)
LEMMA TransformerInvariance == TransformerSpec => []TransformerIInv
BY TransformerInitInv, TransformerStepInv, PTL DEF TransformerSpec

(* Every call in evaluation has its expression in the map of its object.   *)
THEOREM TransformerTypeCorrect == TransformerSpec => []TransformerTypeOK
<1>1. TransformerIInv => TransformerTypeOK
  BY DEF TransformerIInv
<1> QED
  BY <1>1, TransformerInvariance, PTL

(* What CompiledExprs makes of the texts of an object.                     *)
LEMMA CompiledTexts ==
  ASSUME NEW o
  PROVE  /\ DOMAIN CompiledExprs(Texts(o)) =
                {s \in DOMAIN configs[o] : configs[o][s].expression # NoExpression}
         /\ \A s \in DOMAIN CompiledExprs(Texts(o)) :
                CompiledExprs(Texts(o))[s] = configs[o][s].expression
         /\ ConfigureSucceeds(Texts(o)) <=>
                \A s \in DOMAIN configs[o] : configs[o][s].expression # NoExpression =>
                    Compiles(configs[o][s].expression)
<1>1. /\ DOMAIN Texts(o) = DOMAIN configs[o]
      /\ \A s \in DOMAIN configs[o] : Texts(o)[s] = configs[o][s].expression
  BY DEF Texts
<1>2. /\ DOMAIN CompiledExprs(Texts(o)) = {s \in DOMAIN Texts(o) : Texts(o)[s] # NoExpression}
      /\ \A s \in DOMAIN CompiledExprs(Texts(o)) : CompiledExprs(Texts(o))[s] = Texts(o)[s]
  BY DEF CompiledExprs
<1>3. ConfigureSucceeds(Texts(o)) <=>
          \A s \in DOMAIN Texts(o) : Texts(o)[s] # NoExpression => Compiles(Texts(o)[s])
  BY DEF ConfigureSucceeds
<1> QED
  BY <1>1, <1>2, <1>3

(* The same for one signal.                                                *)
LEMMA CompiledNames ==
  ASSUME NEW o, NEW s
  PROVE  /\ s \in DOMAIN CompiledExprs(Texts(o)) <=>
                s \in DOMAIN configs[o] /\ configs[o][s].expression # NoExpression
         /\ s \in DOMAIN CompiledExprs(Texts(o)) =>
                CompiledExprs(Texts(o))[s] = configs[o][s].expression
BY CompiledTexts

(* However often an object is configured, whether configure throws, and    *)
(* wherever it is moved, nothing of an earlier configuration is left in it *)
(* (configure).                                                            *)
THEOREM ConfigureReplaces == TransformerSpec => []ConfiguredOnly
<1>1. TransformerIInv => ConfiguredOnly
  <2> SUFFICES ASSUME TransformerIInv, NEW o \in held, pending[o] = {}
               PROVE  /\ \A s \in DOMAIN exprs[o] :
                            /\ s \in DOMAIN configs[o]
                            /\ exprs[o][s].expression = configs[o][s].expression
                            /\ exprs[o][s].unit = configs[o][s].unit
                            /\ Compiles(exprs[o][s].expression)
                      /\ ~ thrown[o] => ConfigureSucceeds(Texts(o))
                      /\ thrown[o] => ~ ConfigureSucceeds(Texts(o))
                      /\ ~ thrown[o] => DOMAIN exprs[o] = DOMAIN CompiledExprs(Texts(o))
    BY DEF ConfiguredOnly
  <2>1. EntriesOwn(o) /\ Progress(o)
    BY DEF TransformerIInv
  <2>2. ~ thrown[o] => DOMAIN exprs[o] = DOMAIN CompiledExprs(Texts(o))
    BY <2>1, CompiledTexts DEF EntriesOwn, Progress
  <2>3. ~ thrown[o] => ConfigureSucceeds(Texts(o))
    BY <2>1, CompiledTexts DEF EntriesOwn, Progress
  <2>4. thrown[o] => ~ ConfigureSucceeds(Texts(o))
    BY <2>1, CompiledTexts DEF Progress
  <2> QED
    BY <2>1, <2>2, <2>3, <2>4 DEF EntriesOwn
<1> QED
  BY <1>1, TransformerInvariance, PTL

(* Calls for different signals do not disturb each other: each returns the *)
(* value its own raw value has under the current configuration             *)
(* (transform, evaluate).                                                  *)
THEOREM TransformsReturnOwn == TransformerSpec => ReturnsOwn
<1> DEFINE Own(t) ==
        call'[t].at = "returned" /\ call'[t] # call[t] =>
            LET o == call'[t].object
            IN  ~ thrown[o] =>
                    call'[t].value = transform(CompiledExprs(Texts(o)),
                                               call'[t].signal_name, call'[t].raw_value)
<1>1. ASSUME TransformerIInv, TransformerNext, NEW t \in Thread
      PROVE  Own(t)
  <2> USE <1>1 DEF TransformerIInv, TransformerTypeOK
  <2>1. ASSUME NEW o \in Transformer, NEW s \in SignalName, NEW raw \in Raw,
               transform_begins(t, o, s, raw)
        PROVE  Own(t)
    <3>1. CASE s \notin DOMAIN exprs[o]
      <4>1. /\ call'[t].object = o /\ call'[t].signal_name = s /\ call'[t].raw_value = raw
            /\ call'[t].value = raw
        BY <2>1, <3>1 DEF transform_begins, Returned
      <4>2. pending[o] = {} /\ EntriesOwn(o) /\ Progress(o)
        BY <2>1 DEF transform_begins, CallsApart
      <4>3. ~ thrown[o] => s \notin DOMAIN CompiledExprs(Texts(o))
        BY <3>1, <4>2, CompiledNames DEF Progress
      <4> QED
        BY <4>1, <4>3 DEF transform
    <3>2. CASE s \in DOMAIN exprs[o]
      BY <2>1, <3>2 DEF transform_begins
    <3> QED
      BY <3>1, <3>2
  <2>2. CASE transform_returns(t)
    <3> DEFINE o == call[t].object
               s == call[t].signal_name
    <3>1. /\ call[t].at = "evaluating"
          /\ call'[t].object = o /\ call'[t].signal_name = s
          /\ call'[t].raw_value = call[t].raw_value
          /\ call'[t].value = Eval(exprs[o][s].expression, exprs[o][s].x)
      BY <2>2 DEF transform_returns, Returned
    <3>2. /\ CallOwn(t) /\ o \in held /\ s \in DOMAIN exprs[o] /\ EntriesOwn(o)
      BY <3>1
    <3>3. /\ exprs[o][s].x = call[t].raw_value
          /\ s \in DOMAIN CompiledExprs(Texts(o))
          /\ CompiledExprs(Texts(o))[s] = exprs[o][s].expression
      BY <3>2, CompiledNames DEF CallOwn, EntriesOwn
    <3> QED
      BY <3>1, <3>3 DEF transform
  <2>3. ASSUME \/ call'[t] = call[t]
               \/ call'[t] = NoCall
        PROVE  Own(t)
    BY <2>3 DEF NoCall
  <2>4. ASSUME NEW o \in Transformer,
               \/ ConstructTransformer(o) \/ DestroyTransformer(o)
               \/ \E new \in Configs : configure(o, new)
               \/ \E s \in SignalName : compile(o, s)
        PROVE  Own(t)
    BY <2>4, <2>3 DEF ConstructTransformer, DestroyTransformer, configure, compile
  <2>5. ASSUME NEW dst \in Transformer, NEW src \in Transformer, MoveTransformer(dst, src)
        PROVE  Own(t)
    BY <2>5, <2>3 DEF MoveTransformer
  <2>6. ASSUME NEW u \in Thread \ {t}, NEW o \in Transformer, NEW s \in SignalName, NEW raw \in Raw,
               transform_begins(u, o, s, raw)
        PROVE  Own(t)
    BY <2>6, <2>3 DEF transform_begins
  <2>7. ASSUME NEW u \in Thread, \/ transform_returns(u) /\ u # t
                                 \/ transform_throws(u)
        PROVE  Own(t)
    BY <2>7, <2>3 DEF transform_returns, transform_throws
  <2>8. ASSUME NEW u \in Thread, NEW o \in Transformer, NEW s \in SignalName, NEW raw \in Raw,
               transform_begins(u, o, s, raw)
        PROVE  Own(t)
    <3> HIDE DEF Own
    <3> QED
      BY <2>1, <2>6, <2>8
  <2>9. ASSUME NEW u \in Thread, transform_returns(u) \/ transform_throws(u)
        PROVE  Own(t)
    <3> HIDE DEF Own
    <3> QED
      BY <2>2, <2>7, <2>9
  <2> HIDE DEF Own, TransformerIInv, TransformerTypeOK
  <2> QED
    BY <1>1, <2>4, <2>5, <2>8, <2>9 DEF TransformerNext
<1>2. ASSUME TransformerIInv, [TransformerNext]_transformer_vars
      PROVE  [\A t \in Thread : Own(t)]_transformer_vars
  BY <1>1, <1>2
<1>3. TransformerIInv /\ [TransformerNext]_transformer_vars => [\A t \in Thread : Own(t)]_transformer_vars
  BY <1>2
<1> HIDE DEF Own
<1>4. TransformerSpec => [][\A t \in Thread : Own(t)]_transformer_vars
  BY <1>3, TransformerInvariance, PTL DEF TransformerSpec
<1> QED
  BY <1>4 DEF ReturnsOwn, Own
================================================================================
