----------------------------- MODULE MCSampler -----------------------------
(* Four places: strokes between them have every sign of dx and dy, slopes     *)
(* inside, outside and on the edges of the classifier's sector, and the one   *)
(* between -2 and -1 on which truncation and rounding down differ.            *)
EXTENDS TouchSampler

Places == {[x |-> 400, y |-> 200], [x |-> 402, y |-> 203],
           [x |-> 401, y |-> 199], [x |-> 400, y |-> 202]}
=============================================================================
