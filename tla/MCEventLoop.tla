---------------------------- MODULE MCEventLoop ----------------------------
(***************************************************************************)
(* EventLoop with the masks of a small application: nothing, and a mask of *)
(* which a timer takes a part and another registration the whole.          *)
(***************************************************************************)
EXTENDS EventLoop

MCMasks == {{}, {"Readable", "Timer"}}
=============================================================================
