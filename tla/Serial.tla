------------------------------- MODULE Serial -------------------------------
(***************************************************************************)
(* SerialTransport (serial_transport.cpp), POSIX build: one object, used   *)
(* by one thread, against a device that may be unplugged.  Its Close,      *)
(* WriteAll and waits are those of TcpStreamTransport on another handle,   *)
(* so the state and these steps are TcpStream's: socket_ stands for        *)
(* handle_, `fin' for the hang-up of the device and `avail' for its input  *)
(* queue.  Open and the read differ.                                       *)
(***************************************************************************)
EXTENDS TcpStream

\* SerialTransport is constructed; options_.valid is OptionsAreValid(options).
SerialInit == Init

\* Open's early returns, and open() failing.
SerialOpenRefused ==
  /\ pc = "idle"
  /\ Return("Open", IF open_ THEN "AlreadyOpen"
                    ELSE IF ~options_.valid THEN "InvalidArgument" ELSE "OpenFailed", 0)
  /\ UNCHANGED <<object, openCall, size, writeCall, live, peer, delivered, wire>>

\* open() returns a handle.  Nothing configures the line: baudRate, dataBits and
\* the like are only validated.
SerialOpens ==
  /\ pc = "idle"
  /\ ~open_ /\ options_.valid
  /\ socket_' \in Descriptors \ live
  /\ live' = live \cup {socket_'}
  /\ open_' = TRUE
  /\ conn' = "established"
  /\ fin' = FALSE /\ soError' = FALSE /\ dropped' = FALSE
  /\ peerSent' = 0 /\ avail' = 0 /\ delivered' = 0
  /\ wire' = <<>> /\ base' = <<>> /\ wid' = 0 /\ written' = 0
  /\ Return("Open", "Ok", 0)
  /\ UNCHANGED <<options_, openCall, size>>

SerialClose == CallClose \/ Destroy

\* Faulty variant: the size of the buffer is reported as the bytes read.
ReadNothingAsFull ==
  /\ pc = "recv"
  /\ avail = 0
  /\ Return("ReadSome", "Ok", size)
  /\ UNCHANGED <<object, openCall, size, writeCall, live, peer, delivered, wire>>

\* read returns 0: the device was unplugged, or its settings let read return
\* with nothing.  The code takes it for a successful read of no bytes.
ReadNothing ==
  /\ pc = "recv"
  /\ avail = 0
  /\ Return("ReadSome", "Ok", 0)
  /\ UNCHANGED <<object, openCall, size, writeCall, live, peer, delivered, wire>>

\* read fails.
ReadFails ==
  /\ pc = "recv"
  /\ Return("ReadSome", "ReadFailed", 0)
  /\ UNCHANGED <<object, openCall, size, writeCall, live, peer, delivered, wire>>

\* The wait of a read or of a write.
WaitForHandle == ReadWait \/ WriteWait

NativeRead == RecvData \/ ReadNothing \/ ReadFails \/ RecvWouldBlock

\* write on an unplugged device fails.
NativeWriteAll ==
  (~fin /\ ((\E n \in 1..MaxSize : SendChunk(n)) \/ SendWouldBlock)) \/ SendFails

SerialReadSome == \E n \in 0..MaxSize, isNull \in BOOLEAN : CallReadSome(n, isNull)

SerialWriteAll == \E n \in 0..MaxSize, isNull \in BOOLEAN : CallWriteAll(n, isNull)

\* Bytes arrive, and the device is unplugged.
Device == PeerSend \/ PeerClose

SerialNext ==
  SerialOpenRefused \/ SerialOpens \/ SerialClose \/ SerialReadSome \/ SerialWriteAll
  \/ WaitForHandle \/ NativeRead \/ NativeWriteAll \/ Device

SerialSpec == SerialInit /\ [][SerialNext]_vars
=============================================================================
