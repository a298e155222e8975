---------------------------- MODULE MCIsoTpLink ----------------------------
(* Instance of IsoTpLink for TLC: frames of three bytes and two-bit sequence  *)
(* numbers, with a buffer that the longest payload fills exactly             *)
(* (MAX_LEN = FF_DATA + CF_DATA * (SN_MOD - 1)).                              *)
EXTENDS IsoTpLink

\* A single frame, a last frame that is full or not, the whole buffer, too long.
AllLengths == {2, 3, 4, 8, 9}

=============================================================================
