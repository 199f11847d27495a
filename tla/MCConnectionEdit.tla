--------------------------- MODULE MCConnectionEdit ---------------------------
(* Model values for TLC: two connections on two pairs of servers.          *)
EXTENDS ConnectionEdit, TLC

CONSTANTS c1, c2, i1, i2, f1, f2, n1, n2, n3, p1, p2, p3, q1, q2, q3

TwoConns    == {c1, c2}
TwoIrans    == {i1, i2}
TwoForeigns == {f1, f2}
SomeNames   == {n1, n2, n3}
SomeParams  == {p1, p2, p3}
SomePorts   == {q1, q2, q3}

StartRow(i, f, name, peer, p, q) ==
  [iran |-> i, foreign |-> f, name |-> name, peer |-> peer, params |-> p,
   ports |-> q, iranIp |-> i, foreignIp |-> f]

ApartStart == (c1 :> StartRow(i1, f1, n1, n1, p1, q1))
              @@ (c2 :> StartRow(i2, f2, n2, n2, p2, q2))
\* The CLI suggests the first free name of a server: two pairs of servers
\* have a peer of the same name.
SamePeerStart == (c1 :> StartRow(i1, f1, n1, n3, p1, q1))
                 @@ (c2 :> StartRow(i2, f2, n2, n3, p2, q2))

\* One field at a time, and moves of one server or both.
InPlaceEdits == {[NoFields EXCEPT !.ports = q3], [NoFields EXCEPT !.params = p3],
                 [NoFields EXCEPT !.name = n3], [NoFields EXCEPT !.name = n2]}
\* The FOREIGN servers can be exchanged both ways, the IRAN servers one way.
Moves == {[NoFields EXCEPT !.iran = i, !.foreign = f] :
            i \in {i2, None}, f \in TwoForeigns \cup {None}}
RenamingMove == [NoFields EXCEPT !.foreign = f2, !.name = n3]
\* A change of ports that names the server c1 is on: it becomes a move when
\* the row has moved before it is planned again.
PortsNamingServer == [NoFields EXCEPT !.ports = q3, !.foreign = f1]
AllEdits == InPlaceEdits \cup Moves \cup {RenamingMove, PortsNamingServer}
=============================================================================
