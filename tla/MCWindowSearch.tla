---------------------------- MODULE MCWindowSearch ----------------------------
(* WindowSearch with two object identifiers, and four kinds of window before the    *)
(* call: no object, one without children, one of each kind, two with children.      *)
EXTENDS WindowSearch

MCStarts == {<<-1, -1>>, <<-1, 0>>, <<0, 1>>, <<1, 2>>}
================================================================================
