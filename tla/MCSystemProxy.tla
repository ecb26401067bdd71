--------------------------- MODULE MCSystemProxy ---------------------------
(***************************************************************************)
(* Instances of SystemProxy for TLC: an endpoint and the proxy mode.  The  *)
(* user's own proxy uses the same mode as ours, at another endpoint.       *)
(***************************************************************************)
EXTENDS SystemProxy

CONSTANTS p1, p2, user1, user2, on, off

TheirValues == <<{user1, user2}, {on, off}>>

OurTargets == [p \in Ports |-> <<p, on>>]

(* WinINet, with writes that may be ignored: a long life, and an edit.      *)
WinINet == [grouped |-> TRUE, quirks |-> {"ignored"}, ports |-> {p1, p2},
            edits |-> 0, changes |-> 3, faults |-> 1]

(* GNOME, where any two commands fail or the process dies between them.     *)
Gnome == [grouped |-> FALSE, quirks |-> {}, ports |-> {p1, p2},
          edits |-> 0, changes |-> 2, faults |-> 2]

Desktops ==
  {WinINet, [WinINet EXCEPT !.edits = 1, !.changes = 2],
   Gnome, [Gnome EXCEPT !.ports = {p1}, !.edits = 1, !.faults = 1],
   [Gnome EXCEPT !.quirks = {"late", "ignored"}, !.ports = {p1}, !.faults = 1]}

=============================================================================
