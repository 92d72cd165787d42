------------------------ MODULE MCHandshakeAdmission ------------------------
(* HandshakeAdmission on a small instance: two clients, dials enough for     *)
(* every stray to be of another one.                                         *)
EXTENDS HandshakeAdmission

=============================================================================
