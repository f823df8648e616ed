-------------------------- MODULE MCHandoffFraming --------------------------
(* Records of 5 to 9 bytes cover every padding from 0 to 7 and a length  *)
(* that is a multiple of 8, so that a read can end inside a header, a     *)
(* pad or a payload, and one read can hold several frames.               *)
EXTENDS HandoffFraming

MCSizes == 1..9
====
