------------------------------ MODULE MCRequests ------------------------------
EXTENDS Requests
\* The host, and a client of the first protocol.
MCHellos == {HostHello, SilentHello, [HostHello EXCEPT !.protocol = Protocol + 1]}
=============================================================================
