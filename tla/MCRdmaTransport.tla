--------------------------- MODULE MCRdmaTransport ---------------------------
(* Small instances of RdmaTransport for TLC. *)
EXTENDS RdmaTransport

\* Every packet except the last one of the flow.
MCNotLast == {s \in 0..m_size : s + m_mtu < m_size}
MCAll     == 0..m_size
=============================================================================
