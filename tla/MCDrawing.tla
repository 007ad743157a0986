----------------------------- MODULE MCDrawing -----------------------------
(* Three strips and three frames of two lines: a line is drawn from the       *)
(* screen twice before it comes from the file.  "icon" is transparent, and    *)
(* the strips do not divide "odd".                                            *)
EXTENDS Drawing

Files   == {"full", "icon", "odd"}
Heights == [full |-> 6, icon |-> 3, odd |-> 4]
Blank   == [full |-> {}, icon |-> {1}, odd |-> {}]

Call(m, s, p, at) == [mode |-> m, show |-> s, pic |-> p, y |-> at]
PageCalls ==
  {Call(m, "shading", "full", 0) : m \in Flying \cup {"shades"}}
    \cup {Call(m, s, "icon", 2) : m \in {"none", "shades"}, s \in Ways}
    \cup {Call("shades", "shading", "odd", 1)}
=============================================================================
