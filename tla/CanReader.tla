------------------------------- MODULE CanReader -------------------------------
(***************************************************************************)
(* CanReader (src/can_reader.cpp): objects that own a SocketCAN descriptor *)
(* and are opened, read, closed, moved and destroyed, each by one thread   *)
(* at a time.  Descriptors are numbers that the kernel hands out again as  *)
(* soon as they are closed, to other readers and to the rest of the        *)
(* process.                                                                *)
(***************************************************************************)
EXTENDS Integers, FiniteSets

CONSTANTS
    Reader,       \* objects
    Fd,           \* descriptor numbers
    Name,         \* interface names callers ask for
    Present,      \* interfaces the kernel has
    IfName(_),    \* a name cut to IFNAMSIZ - 1 characters
    Errno,        \* errors of recvmsg other than EAGAIN
    Sent,         \* frames on the bus: [id, extended, remote, dlc, data]
    SffIds, EffIds,     \* CAN ids there are (2^11 standard, 2^29 extended ones)
    NBytes        \* length of a payload (8)

NoName == ""     \* the empty interface name

ASSUME ReaderAssumption ==
    /\ Fd \subseteq Nat
    /\ NoName \notin Name
    /\ Errno \subseteq Nat \ {0}
    /\ SffIds \in Nat \ {0} /\ EffIds \in Nat
    /\ \E m \in 1 .. EffIds : EffIds = m * SffIds
    /\ NBytes \in Nat
    /\ \A sent \in Sent :
          /\ sent.extended \in BOOLEAN /\ sent.remote \in BOOLEAN
          /\ sent.id \in 0 .. (IF sent.extended THEN EffIds ELSE SffIds) - 1

VARIABLES
    readers,           \* objects that are constructed and not destroyed
    fd_, last_errno_, interface_name_,
    pc,                \* of each object: idle, or how far open has come
    requested,         \* the name open was called with
    kernel,            \* what each descriptor number refers to
    last_read          \* history: what the last read_frame returned

reader_vars ==
    <<readers, fd_, last_errno_, interface_name_, pc, requested, kernel, last_read>>

Free == [free |-> TRUE]
Foreign == [foreign |-> TRUE]    \* a file of the rest of the process
SocketOn(name, flag) == [bound |-> name, nonblocking |-> flag]
NewSocket == SocketOn(NoName, FALSE)
IsSocket(f) == kernel[f] \notin {Free, Foreign}

NoFrame == [none |-> TRUE]
Error(e) == [errno |-> e]

ReaderInit ==
    /\ readers = {}
    /\ fd_ = [r \in Reader |-> -1]
    /\ last_errno_ = [r \in Reader |-> 0]
    /\ interface_name_ = [r \in Reader |-> NoName]
    /\ pc = [r \in Reader |-> "idle"]
    /\ requested = [r \in Reader |-> NoName]
    /\ kernel = [f \in Fd |-> Free]
    /\ last_read = [r \in Reader |-> NoFrame]

is_open(r) == fd_[r] >= 0
has_error(r) == last_errno_[r] # 0
Idle(r) == r \in readers /\ pc[r] = "idle"

(* Mutant: descriptor 0 is taken for none.                                 *)
KernelClose_positive(f) ==
    kernel' = IF f > 0 THEN [kernel EXCEPT ![f] = Free] ELSE kernel

(* ::close(f), when f is a descriptor.  A number that is not open is left  *)
(* alone (EBADF); whatever else the number refers to is closed.            *)
KernelClose(f) == kernel' = IF f >= 0 THEN [kernel EXCEPT ![f] = Free] ELSE kernel

ConstructReader(r) ==
    /\ r \notin readers
    /\ readers' = readers \cup {r}
    /\ fd_' = [fd_ EXCEPT ![r] = -1]
    /\ last_errno_' = [last_errno_ EXCEPT ![r] = 0]
    /\ interface_name_' = [interface_name_ EXCEPT ![r] = NoName]
    /\ last_read' = [last_read EXCEPT ![r] = NoFrame]
    /\ UNCHANGED <<pc, requested, kernel>>

DestroyReader(r) ==
    /\ Idle(r)
    /\ readers' = readers \ {r}
    /\ KernelClose(fd_[r])
    /\ fd_' = [fd_ EXCEPT ![r] = -1]
    /\ UNCHANGED <<last_errno_, interface_name_, pc, requested, last_read>>

close(r) ==
    /\ Idle(r)
    /\ KernelClose(fd_[r])
    /\ fd_' = [fd_ EXCEPT ![r] = -1]
    /\ UNCHANGED <<readers, last_errno_, interface_name_, pc, requested, last_read>>

clear_error(r) ==
    /\ Idle(r)
    /\ last_errno_' = [last_errno_ EXCEPT ![r] = 0]
    /\ UNCHANGED <<readers, fd_, interface_name_, pc, requested, kernel, last_read>>

--------------------------------------------------------------------------------
(* Mutant: the source keeps its descriptor.                                *)
Release_shared(fds, src) == fds

(* other.fd_ = -1                                                          *)
Release(fds, src) == [fds EXCEPT ![src] = -1]

(* The members of src go to dst; the moved-from name is empty.             *)
TakeReader(dst, src) ==
    /\ fd_' = Release([fd_ EXCEPT ![dst] = fd_[src]], src)
    /\ last_errno_' = [last_errno_ EXCEPT ![dst] = last_errno_[src], ![src] = 0]
    /\ interface_name_' = [interface_name_ EXCEPT ![dst] = interface_name_[src], ![src] = NoName]
    /\ last_read' = [last_read EXCEPT ![dst] = last_read[src], ![src] = NoFrame]

MoveConstructReader(dst, src) ==
    /\ dst \notin readers /\ Idle(src)
    /\ readers' = readers \cup {dst}
    /\ TakeReader(dst, src)
    /\ UNCHANGED <<pc, requested, kernel>>

(* operator=; an object moved to itself stays as it is.                    *)
MoveAssignReader(dst, src) ==
    /\ Idle(dst) /\ Idle(src)
    /\ \/ /\ dst # src
          /\ KernelClose(fd_[dst])
          /\ TakeReader(dst, src)
       \/ /\ dst = src
          /\ UNCHANGED <<kernel, fd_, last_errno_, interface_name_, last_read>>
    /\ UNCHANGED <<readers, pc, requested>>

--------------------------------------------------------------------------------
(* open, one system call at a time: other threads open and close           *)
(* descriptors in between.                                                 *)

(* Mutant: the error of an earlier interface is kept.                      *)
ClearError_kept(r) == UNCHANGED last_errno_

ClearError(r) == last_errno_' = [last_errno_ EXCEPT ![r] = 0]

open(r, interface_name) ==
    /\ Idle(r)
    /\ KernelClose(fd_[r])
    /\ fd_' = [fd_ EXCEPT ![r] = -1]
    /\ ClearError(r)
    /\ interface_name_' = [interface_name_ EXCEPT ![r] = NoName]
    /\ requested' = [requested EXCEPT ![r] = interface_name]
    /\ pc' = [pc EXCEPT ![r] = "socket"]
    /\ last_read' = [last_read EXCEPT ![r] = NoFrame]
    /\ UNCHANGED readers

(* The kernel hands out the lowest number that is free.                    *)
LowestFree(f) == kernel[f] = Free /\ \A g \in Fd : kernel[g] = Free => f <= g

create_socket(r) ==
    /\ pc[r] = "socket"
    /\ \/ \E f \in Fd :
             /\ LowestFree(f)
             /\ fd_' = [fd_ EXCEPT ![r] = f]
             /\ kernel' = [kernel EXCEPT ![f] = NewSocket]
             /\ pc' = [pc EXCEPT ![r] = "bind"]
       \/ /\ pc' = [pc EXCEPT ![r] = "idle"]      \* return false
          /\ UNCHANGED <<fd_, kernel>>
    /\ UNCHANGED <<readers, last_errno_, interface_name_, requested, last_read>>

(* Mutant: the failure path forgets the number without closing it.         *)
Fail_leaking(r) ==
    /\ fd_' = [fd_ EXCEPT ![r] = -1]
    /\ pc' = [pc EXCEPT ![r] = "idle"]
    /\ UNCHANGED kernel

(* ::close(fd_); fd_ = -1; return false                                    *)
Fail(r) ==
    /\ KernelClose(fd_[r])
    /\ fd_' = [fd_ EXCEPT ![r] = -1]
    /\ pc' = [pc EXCEPT ![r] = "idle"]

(* ioctl looks the name up, cut to what an ifreq holds.                    *)
bind_socket(r) ==
    /\ pc[r] = "bind"
    /\ \/ /\ IfName(requested[r]) \in Present
          /\ kernel' = [kernel EXCEPT ![fd_[r]] = SocketOn(IfName(requested[r]), @.nonblocking)]
          /\ pc' = [pc EXCEPT ![r] = "fcntl"]
          /\ UNCHANGED fd_
       \/ Fail(r)
    /\ UNCHANGED <<readers, last_errno_, interface_name_, requested, last_read>>

(* Mutant: failing to set the flag is not an error.                        *)
NonblockingOrFail_lenient(r) ==
    /\ \E flag \in BOOLEAN : kernel' = [kernel EXCEPT ![fd_[r]] = SocketOn(@.bound, flag)]
    /\ interface_name_' = [interface_name_ EXCEPT ![r] = requested[r]]
    /\ pc' = [pc EXCEPT ![r] = "idle"]
    /\ UNCHANGED fd_

NonblockingOrFail(r) ==
    \/ /\ kernel' = [kernel EXCEPT ![fd_[r]] = SocketOn(@.bound, TRUE)]
       /\ interface_name_' = [interface_name_ EXCEPT ![r] = requested[r]]
       /\ pc' = [pc EXCEPT ![r] = "idle"]         \* return true
       /\ UNCHANGED fd_
    \/ Fail(r) /\ UNCHANGED interface_name_

set_nonblocking(r) ==
    /\ pc[r] = "fcntl"
    /\ NonblockingOrFail(r)
    /\ UNCHANGED <<readers, last_errno_, requested, last_read>>

--------------------------------------------------------------------------------
(* The struct can_frame the kernel delivers: in can_id the id in the low   *)
(* bits, then the error, the remote and the extended flag; beyond the dlc  *)
(* the payload is whatever the sender left there.                          *)
RawFrame(sent) ==
    [ can_id |-> sent.id + (IF sent.remote THEN 2 * EffIds ELSE 0)
                         + (IF sent.extended THEN 4 * EffIds ELSE 0),
      can_dlc |-> sent.dlc,
      data |-> sent.data ]

(* Mutant: the payload is copied whole, whatever the dlc says.             *)
Payload_whole(raw) == raw.data

(* The first dlc bytes, at most NBytes; the rest are zero.                 *)
Payload(raw) == [k \in 1 .. NBytes |-> IF k <= raw.can_dlc THEN raw.data[k] ELSE 0]

IsExtended(can_id) == (can_id \div (4 * EffIds)) % 2 = 1

(* Mutant: one mask for both formats.                                      *)
FrameId_eff(can_id) == can_id % (4 * EffIds)

FrameId(can_id) == can_id % (IF IsExtended(can_id) THEN EffIds ELSE SffIds)

ToFrame(raw) == [id |-> FrameId(raw.can_id), dlc |-> raw.can_dlc, data |-> Payload(raw)]

(* Mutant: the error of an earlier read is not reset.                      *)
ResetErrno_not(r, e) == last_errno_' = IF e = 0 THEN last_errno_ ELSE [last_errno_ EXCEPT ![r] = e]

(* Mutant: the result of recvmsg is stored in the place of errno.          *)
ResetErrno_result(r, e) == last_errno_' = [last_errno_ EXCEPT ![r] = IF e = 0 THEN 0 ELSE -1]

(* last_errno_ = 0, then errno when recvmsg failed with one.               *)
ResetErrno(r, e) == last_errno_' = [last_errno_ EXCEPT ![r] = e]

(* A closed reader returns before it resets the error.  An open one        *)
(* receives a frame, nothing (an empty buffer or a short read), or an      *)
(* error.                                                                  *)
read_frame(r) ==
    /\ Idle(r)
    /\ \/ /\ ~is_open(r)
          /\ last_read' = [last_read EXCEPT ![r] = NoFrame]
          /\ UNCHANGED last_errno_
       \/ /\ is_open(r)
          /\ \/ /\ \E sent \in Sent : last_read' = [last_read EXCEPT ![r] = ToFrame(RawFrame(sent))]
                /\ ResetErrno(r, 0)
             \/ /\ last_read' = [last_read EXCEPT ![r] = NoFrame]
                /\ ResetErrno(r, 0)
             \/ \E e \in Errno :
                   /\ last_read' = [last_read EXCEPT ![r] = Error(e)]
                   /\ ResetErrno(r, e)
    /\ UNCHANGED <<readers, fd_, interface_name_, pc, requested, kernel>>

--------------------------------------------------------------------------------
(* The rest of the process opens and closes files of its own.              *)
ForeignOpen(f) ==
    /\ LowestFree(f)
    /\ kernel' = [kernel EXCEPT ![f] = Foreign]
    /\ UNCHANGED <<readers, fd_, last_errno_, interface_name_, pc, requested, last_read>>

ForeignClose(f) ==
    /\ kernel[f] = Foreign
    /\ kernel' = [kernel EXCEPT ![f] = Free]
    /\ UNCHANGED <<readers, fd_, last_errno_, interface_name_, pc, requested, last_read>>

ReaderStep(r) ==
    \/ ConstructReader(r) \/ DestroyReader(r) \/ close(r) \/ clear_error(r) \/ read_frame(r)
    \/ \E name \in Name : open(r, name)
    \/ create_socket(r) \/ bind_socket(r) \/ set_nonblocking(r)
    \/ \E src \in Reader : MoveConstructReader(r, src) \/ MoveAssignReader(r, src)

ReaderNext ==
    \/ \E r \in Reader : ReaderStep(r)
    \/ \E f \in Fd : ForeignOpen(f) \/ ForeignClose(f)

ReaderSpec == ReaderInit /\ [][ReaderNext]_reader_vars

--------------------------------------------------------------------------------
(* Type invariant.                                                         *)
Socket == [bound : {NoName} \cup Present, nonblocking : BOOLEAN]

ReaderTypeOK ==
    /\ readers \subseteq Reader
    /\ fd_ \in [Reader -> {-1} \cup Fd]
    /\ last_errno_ \in [Reader -> {0} \cup Errno]
    /\ interface_name_ \in [Reader -> {NoName} \cup Name]
    /\ pc \in [Reader -> {"idle", "socket", "bind", "fcntl"}]
    /\ requested \in [Reader -> {NoName} \cup Name]
    /\ kernel \in [Fd -> Socket \cup {Free, Foreign}]
    /\ DOMAIN last_read = Reader

(* Every socket has exactly one living reader, and every descriptor of a   *)
(* reader is a socket: none is leaked by a failed open, a move or a        *)
(* destruction, none is closed twice, and no reader is left with a number  *)
(* that has come to mean something else (CanReader as a whole).            *)
OwnedOnce ==
    /\ \A f \in Fd : IsSocket(f) => \E r \in readers : fd_[r] = f
    /\ \A r, q \in Reader : is_open(r) /\ fd_[q] = fd_[r] => q = r
    /\ \A r \in Reader : is_open(r) => r \in readers /\ IsSocket(fd_[r])

(* No step of one reader changes a descriptor of another one or of the     *)
(* rest of the process, although numbers are handed out again at once.     *)
OthersUntouched ==
    [][\A r \in Reader : ReaderStep(r) =>
          \A f \in Fd : kernel'[f] # kernel[f] =>
              \/ kernel[f] = Free
              \/ IsSocket(f) /\ \A q \in Reader : fd_[q] = f <=> q = r]_reader_vars

(* A reader that is open and idle does not block and is bound to the       *)
(* interface it names, as far as an ifreq can hold the name (open).        *)
OpenIsReady ==
    \A r \in Reader :
        is_open(r) /\ pc[r] = "idle" =>
            /\ kernel[fd_[r]].nonblocking
            /\ kernel[fd_[r]].bound = IfName(interface_name_[r])

(* While a reader is open, the error it reports is the one its last read   *)
(* met: not one of an earlier read, of an earlier interface, nor of        *)
(* another reader before a move (read_frame, open, operator=).             *)
ErrorTruthful ==
    \A r \in Reader :
        is_open(r) /\ has_error(r) => last_read[r] = Error(last_errno_[r])

SaneResult(f) ==
    "id" \in DOMAIN f =>
        \E sent \in Sent :
            /\ f.id = sent.id /\ f.dlc = sent.dlc
            /\ \A k \in 1 .. NBytes :
                  f.data[k] = IF k <= sent.dlc THEN sent.data[k] ELSE 0

(* Every frame returned is one that was sent, its id without the flags,    *)
(* and zeros for the bytes beyond the dlc, which the decoder relies on     *)
(* (read_frame).                                                           *)
FrameSane == \A r \in Reader : SaneResult(last_read[r])

(* The inductive invariant: who owns what while an open is under way.      *)
OpeningInv ==
    \A r \in Reader :
        /\ r \notin readers => pc[r] = "idle" /\ ~is_open(r)
        /\ pc[r] = "socket" => ~is_open(r)
        /\ pc[r] \in {"bind", "fcntl"} => is_open(r)
        /\ pc[r] = "fcntl" => kernel[fd_[r]].bound = IfName(requested[r])
        /\ pc[r] # "idle" => requested[r] \in Name /\ ~has_error(r)

ReaderInv == OpeningInv /\ OwnedOnce /\ OpenIsReady /\ ErrorTruthful

================================================================================
