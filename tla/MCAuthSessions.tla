--------------------------- MODULE MCAuthSessions ---------------------------
(* Small instances of AuthSessions for TLC. *)
EXTENDS AuthSessions, TLC

\* e1 is the bootstrap e-mail, so e-mails are not interchangeable.
Symmetry == Permutations(User) \cup Permutations(Token) \cup Permutations(Handler)
=============================================================================
