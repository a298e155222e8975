---------------------------- MODULE IsoTpFrames ----------------------------
(***************************************************************************)
(* The frames of a conforming ISO-TP sender: the instrument cluster, which *)
(* is not part of this repository, and for single frames the gateway's UDS *)
(* server.  Byte <<m, i>> is the i-th byte of response m.                  *)
(***************************************************************************)
EXTENDS IsoTp

\* The data of a frame: the bytes of response m after the first `from', and
\* padding, with the positions it would have, after the last byte of the response.
Data(m, from) == [j \in 1 .. CF_DATA |-> <<m, from + j>>]

SingleFrame(m, n, dlc) ==
    [pci |-> "SF", arg |-> n, dlc |-> dlc, data |-> Data(m, 0)]
FirstFrame(m, n) ==
    [pci |-> "FF", arg |-> n, dlc |-> CF_DATA + 1, data |-> Data(m, 0)]

ConsecutiveFrame(m, k, dlc) ==
    [pci |-> "CF", arg |-> k % SN_MOD, dlc |-> dlc,
     data |-> Data(m, Sent(k))]

\* A short frame may be sent with its own length or padded to the full one.
Dlcs(n) == {Least(CF_DATA, n) + 1, CF_DATA + 1}

=============================================================================
